---- MODULE Spec2Model ----
(***************************************************************************)
(* Model of yt_dlp/downloader/external.py: the supervision of external     *)
(* downloader processes (ExternalFD and its subclasses).                   *)
(*                                                                         *)
(* One behaviour of Spec is one call of ExternalFD.real_download for one   *)
(* task (info_dict) on one backend class, from the call to its return or   *)
(* to the exception it lets through; the child is waited for with          *)
(* ExternalFD._call_process.  One behaviour of SpecRpc is one call of      *)
(* Aria2cFD._call_process with the RPC monitor, and one of SpecSupports    *)
(* one evaluation of ExternalFD.supports.                                  *)
(* SpecUpdate models yt_dlp/update.py (one call of run_update) and         *)
(* SpecSortIes devscripts/make_lazy_extractors.py (one run of sort_ies).   *)
(***************************************************************************)
EXTENDS Integers, Sequences, FiniteSets, TLC

(***************************************************************************)
(* Bounds of the model.                                                    *)
(***************************************************************************)
\* largest value of params['fragment_retries'] explored
MaxRetries == 2
\* largest number of entries of info_dict['fragments'] explored
MaxFrags == 3
\* child exit codes explored are 0..MaxExit
MaxExit == 1
\* longest protocol tag explored, in symbols (protocol names and '+')
MaxTagLen == 3

(***************************************************************************)
(* Values.                                                                 *)
(***************************************************************************)
\* FFmpegFD._call_downloader returns the bool False when ffmpeg is missing;
\* a Python bool is an int and False == 0.
PyFalse == 0

\* the bytes a child leaves on its stderr pipe: "A" followed by a byte that
\* is not valid UTF-8
StderrBlobs == {<<65, 255>>}

\* the payload bytes a backend may store in a fragment or output file
PayloadBytes == {0, 1}

ExitCodes == 0..MaxExit

\* bytes.decode('utf-8', 'replace'): an undecodable byte becomes U+FFFD
decode_replace(b) == [k \in 1..Len(b) |-> IF b[k] < 128 THEN b[k] ELSE 65533]

\* _BY_NAME (lines 726-730): the backend classes
AllKlasses == {"curl", "axel", "wget", "aria2c", "httpie", "ffmpeg", "avconv"}

\* the backend classes that run through real_download in this model
\*   aria2c, wget : ExternalFD._call_downloader (wget never gets fragments)
\*   curl         : CurlFD._call_downloader
\*   ffmpeg       : FFmpegFD._call_downloader
Klasses == {"aria2c", "wget", "curl", "ffmpeg"}

(***************************************************************************)
(* Capability negotiation: ExternalFD.supports, lines 106-112.             *)
(*                                                                         *)
(* A protocol tag is a string; it is modelled as a sequence of symbols,    *)
(* each a protocol name or the character '+'.  Two names side by side are  *)
(* one longer string, which is the name of no protocol.                    *)
(***************************************************************************)
\* SUPPORTED_PROTOCOLS: lines 43, 269, 487
SUPPORTED_PROTOCOLS(cls) ==
    CASE cls = "aria2c" ->
             {"http", "https", "ftp", "ftps", "dash_frag_urls", "m3u8_frag_urls"}
      [] cls \in {"ffmpeg", "avconv"} ->
             {"http", "https", "ftp", "ftps", "m3u8", "m3u8_native", "rtsp", "rtmp",
              "rtmp_ffmpeg", "mms", "http_dash_segments"}
      [] OTHER -> {"http", "https", "ftp", "ftps"}

\* SUPPORTED_FEATURES: lines 44, 488
SUPPORTED_FEATURES(cls) ==
    IF cls \in {"ffmpeg", "avconv"} THEN {"TO_STDOUT", "MULTIPLE_FORMATS"} ELSE {}

\* str.split('+'), from position i on, cur being the token read so far
RECURSIVE split_from(_, _, _)
split_from(s, cur, i) ==
    IF i > Len(s) THEN <<cur>>
    ELSE IF s[i] = "+" THEN <<cur>> \o split_from(s, <<>>, i + 1)
    ELSE split_from(s, Append(cur, s[i]), i + 1)

split_plus(s) == split_from(s, <<>>, 1)

\* proto in cls.SUPPORTED_PROTOCOLS, for a token of the tag
proto_in(token, cls) == Len(token) = 1 /\ token[1] \in SUPPORTED_PROTOCOLS(cls)

\* '+' in info_dict['protocol']
has_plus(s) == \E k \in 1..Len(s) : s[k] = "+"

\* a supports that is content with one known protocol among the tokens
supports_AnyProtocol(cls, info) ==
    /\ ~info.to_stdout \/ "TO_STDOUT" \in SUPPORTED_FEATURES(cls)
    /\ ~has_plus(info.protocol) \/ "MULTIPLE_FORMATS" \in SUPPORTED_FEATURES(cls)
    /\ \E k \in 1..Len(split_plus(info.protocol)) :
           proto_in(split_plus(info.protocol)[k], cls)

\* ExternalFD.supports(info_dict), lines 106-112
supports(cls, info) ==
    /\ ~info.to_stdout \/ "TO_STDOUT" \in SUPPORTED_FEATURES(cls)
    /\ ~has_plus(info.protocol) \/ "MULTIPLE_FORMATS" \in SUPPORTED_FEATURES(cls)
    /\ \A k \in 1..Len(split_plus(info.protocol)) :
           proto_in(split_plus(info.protocol)[k], cls)

VARIABLES
    klass,       \* the backend class real_download runs on
    params,      \* self.params: the resolved options
    info_dict,   \* the task
    filename,    \* the final destination ("-" is stdout)
    host,        \* the machine: sys.platform and whether ffmpeg can be found
    pc,          \* position of the thread of control
    count,       \* ExternalFD._call_downloader: count
    frag_index,  \* ExternalFD._call_downloader: frag_index of the reassembly loop
    retval,      \* real_download: retval
    result,      \* what real_download returned: "none" | "True" | "False"
    proc,        \* the child process: "none" | "running" | "exited" | "killed"
    stdin_q,     \* whether the quit directive b'q' was written to the child's stdin
    sigint,      \* whether SIGINT was sent to the child
    native,      \* FFmpegFD: use_native_progress of this run
    ncalls,      \* number of children started (Popen calls)
    interrupted, \* whether a KeyboardInterrupt arrived while the child ran
    rcs,         \* the return codes of the children that exited by themselves, in order
    captured,    \* the stderr bytes captured from the last child
    nsleeps,     \* number of sleep_retry('fragment', ..) calls
    frag_files,  \* '<tmp>-Frag<i>': [exists, data] per fragment index
    tmp_file,    \* the temp path: [exists, data]
    final_file,  \* the final path: [exists, data]
    urls_file,   \* whether '<tmp>.frag.urls' exists
    dest_open,   \* whether the stream opened on the temp path is open
    on_open,     \* the fragment files as they were when dest was opened
    last_written,\* the index of the fragment file the backend stored last (-1: none)
    appended,    \* the fragment indices written to dest, in order
    skipped,     \* the fragment indices passed to report_skip_fragment
    stderr_out,  \* what to_stderr received, in order
    errors,      \* what report_error received, in order
    events,      \* the progress events given to _hook_progress, in order
    status,      \* Aria2cFD._call_process: the dict status
    aktiva,      \* Aria2cFD._call_process: the last answer to aria2.tellActive
    completed,   \* Aria2cFD._call_process: the last answer to aria2.tellStopped
    requests,    \* the methods of the RPC requests sent, in order
    exc,         \* the exception on its way out of the try block ("none": none)
    polled,      \* Aria2cFD._call_process: retval; <<>> is None, <<c>> exit code c
    iters,       \* number of iterations of the poll loop started
    branch,      \* the branch the running iteration took
    nsamples,    \* number of 'downloading' events the monitor emitted
    rpc_sleeps,  \* number of time.sleep(0.1) calls of the poll loop
    npolls,      \* number of p.poll() calls
    last_sample, \* the last status given to _hook_progress by the monitor
    bad_id_at,   \* the number of the request answered with another id (0: none)
    cmd,         \* the argument vector of the child, as the last Popen got it
    warnings,    \* what report_warning received, in order
    env,         \* the env argument of FFmpegFD's Popen (<<>>: None, inherit)
    name,        \* longname: the file name given, a sequence of characters
    encoding,    \* longname: the encoding of the file system
    longname,    \* longname: the names returned, <<>> before the call
    runtime,     \* update: what the interpreter and the build say about this run
    version_info,\* update: the latest release as the server describes it
    fs,          \* update: the files at filename, filename.old, filename.new
    newcontent,  \* run_update: newcontent (None before the download)
    expected_sum,\* run_update: expected_sum (None before get_sha256sum)
    update_ret,  \* what run_update returned: "none" | "None" | "True"
    hierarchy,   \* sort_ies: c.__bases__ of every class, as a set
    ies,         \* sort_ies: ies, the classes given
    classes,     \* sort_ies: classes
    returned_classes, \* sort_ies: returned_classes
    yielded      \* sort_ies: the classes yielded so far, in order

vars == <<klass, params, info_dict, filename, host, pc, count, frag_index, retval,
          result, proc, stdin_q, sigint, native, ncalls, interrupted, rcs, captured,
          nsleeps, frag_files, tmp_file, final_file, urls_file, dest_open, on_open,
          last_written, appended, skipped, stderr_out, errors, events, status,
          aktiva, completed, requests, exc, polled, iters, branch, nsamples,
          rpc_sleeps, npolls, last_sample, bad_id_at, cmd, warnings, env,
          name, encoding, longname, runtime, version_info, fs, newcontent,
          expected_sum, update_ret, hierarchy, ies, classes, returned_classes,
          yielded>>

NoFile == [exists |-> FALSE, data |-> <<>>]
File(d) == [exists |-> TRUE, data |-> d]

\* 'fragments' in info_dict
HasFragments == info_dict.fragments >= 0
\* len(info_dict['fragments'])
NumFrags == info_dict.fragments
FragIdx == 0..(MaxFrags - 1)

(***************************************************************************)
(* The tasks and options explored.  Keys that the class at hand never      *)
(* reads are left at the value .get() defaults to.                         *)
(***************************************************************************)
Params(retries, skip, keep, nativep, verbose) ==
    [fragment_retries |-> retries, skip_unavailable_fragments |-> skip,
     keep_fragments |-> keep, enable_native_progress |-> nativep, verbose |-> verbose]

\* fragments: len(info_dict['fragments']), or -1 when the key is absent
\* decrypt:   whether the fragments carry decrypt_info
\* protocol:  the protocol tag, as a sequence of symbols
\* url:       the (last) input url; "-" is a pipe
\* to_stdout: whether the task writes to stdout
\* ext:       'mp4' unless a task is given another
Info(frags, decrypt, is_live, live, protocol, rtmp_live, url, to_stdout) ==
    [fragments |-> frags, decrypt |-> decrypt, is_live |-> is_live, live |-> live,
     protocol |-> protocol, rtmp_live |-> rtmp_live, url |-> url,
     to_stdout |-> to_stdout, ext |-> "mp4"]

Hosts == [platform : {"linux", "win32"}, ffmpeg_found : BOOLEAN]
DefaultHost == [platform |-> "linux", ffmpeg_found |-> TRUE]

\* aria2c on a fragmented task (protocol *_frag_urls); "aria2c does not
\* support livestreams and stdout redirection" (external.py:343)
InitAria2cFragments ==
    /\ klass = "aria2c"
    /\ \E r \in 0..MaxRetries, skip \in BOOLEAN, keep \in BOOLEAN :
           params = Params(r, skip, keep, FALSE, FALSE)
    /\ \E n \in 0..MaxFrags, d \in BOOLEAN :
           info_dict = Info(n, d, FALSE, FALSE, <<"m3u8_frag_urls">>, FALSE, "u", FALSE)
    /\ filename = "video"
    /\ host = DefaultHost

\* a single-file task on a class that keeps ExternalFD._call_downloader
\* (aria2c, wget) or on curl
InitSingle ==
    /\ klass \in {"aria2c", "wget", "curl"}
    /\ params = Params(0, TRUE, FALSE, FALSE, FALSE)
    /\ \E l \in BOOLEAN :
           info_dict = Info(-1, FALSE, l /\ klass # "aria2c", FALSE, <<"http">>, FALSE,
                            "u", FALSE)
    /\ filename = "video"
    /\ host = DefaultHost

\* ffmpeg: the only class that declares TO_STDOUT
InitFFmpeg ==
    /\ klass = "ffmpeg"
    /\ \E np \in BOOLEAN, v \in BOOLEAN : params = Params(0, TRUE, FALSE, np, v)
    /\ filename \in {"video", "-"}
    /\ \E il \in BOOLEAN, l \in BOOLEAN, p \in {"m3u8", "rtmp"}, rl \in BOOLEAN,
          u \in {"u", "-"} :
           /\ p # "rtmp" => ~rl
           /\ info_dict = Info(-1, FALSE, il, l, <<p>>, rl, u, filename = "-")
    /\ host \in Hosts

\* the numbers of a status dict are ints or floats: a number is the
\* fraction <<numerator, denominator>> in lowest terms; None, and a key the
\* dict does not have, is <<>>
None == <<>>

\* no status dict yet
NoStatus ==
    [status |-> "none", downloaded_bytes |-> None, total_bytes |-> None,
     speed |-> None, eta |-> None,
     fragment_index |-> -1, fragment_count |-> -1]

\* run_update is not called: no interpreter state or release is looked at
NoUpdate ==
    /\ runtime = <<>>
    /\ version_info = <<>>
    /\ fs = <<>>

\* sort_ies is not called
NoSort ==
    /\ hierarchy = <<>>
    /\ ies = <<>>

\* nothing has run yet
InitRun ==
    /\ count = 0
    /\ frag_index = 0
    /\ retval = -1
    /\ result = "none"
    /\ proc = "none"
    /\ stdin_q = FALSE
    /\ sigint = FALSE
    /\ native = FALSE
    /\ ncalls = 0
    /\ interrupted = FALSE
    /\ rcs = <<>>
    /\ captured = <<>>
    /\ nsleeps = 0
    /\ frag_files = [i \in FragIdx |-> NoFile]
    /\ tmp_file = NoFile
    /\ final_file = NoFile
    /\ urls_file = FALSE
    /\ dest_open = FALSE
    /\ on_open = [i \in FragIdx |-> NoFile]
    /\ last_written = -1
    /\ appended = <<>>
    /\ skipped = <<>>
    /\ stderr_out = <<>>
    /\ errors = <<>>
    /\ events = <<>>
    /\ status = NoStatus
    /\ aktiva = <<>>
    /\ completed = <<>>
    /\ requests = <<>>
    /\ exc = "none"
    /\ polled = <<>>
    /\ iters = 0
    /\ branch = "none"
    /\ nsamples = 0
    /\ rpc_sleeps = 0
    /\ npolls = 0
    /\ last_sample = NoStatus
    /\ bad_id_at = 0
    /\ cmd = <<>>
    /\ warnings = <<>>
    /\ env = <<>>
    /\ longname = <<>>
    /\ newcontent = None
    /\ expected_sum = None
    /\ update_ret = "none"
    /\ classes = <<>>
    /\ returned_classes = {}
    /\ yielded = <<>>

\* real_download is called on a class that supports the task
Init ==
    /\ InitAria2cFragments \/ InitSingle \/ InitFFmpeg
    /\ supports(klass, info_dict)
    /\ pc = "call"
    /\ name = <<>>
    /\ encoding = "utf8"
    /\ NoUpdate
    /\ NoSort
    /\ InitRun

(***************************************************************************)
(* Helpers of ExternalFD._call_downloader.                                 *)
(***************************************************************************)
\* FragmentFD.decrypter(info_dict): the per-fragment transform.  Fragments
\* without decrypt_info pass through; otherwise the bytes are transformed
\* under a key and an IV that depends on the fragment.
decrypt_fragment(i, data) ==
    IF info_dict.decrypt
    THEN [k \in 1..Len(data) |-> (data[k] + 100 + i) % 256]
    ELSE data

\* the bytes the backend stores in fragment file i with payload byte b
FragBytes(i, b) == <<i, b>>

\* a loop test that allows one invocation too many
LoopContinues_OffByOne(c, fragment_retries) == c <= fragment_retries + 1

\* line 148: the loop runs while this holds
LoopContinues(c, fragment_retries) == c <= fragment_retries

\* a backoff after every failed invocation
SleepsBeforeRetry_Always(c, fragment_retries) == TRUE

\* line 156: after a failure the retry is announced and sleep_retry called
SleepsBeforeRetry(c, fragment_retries) == c <= fragment_retries

\* a give-up test that forgets skip_unavailable_fragments
GivesUp_IgnoresSkip(c, fragment_retries, skip_unavailable_fragments) ==
    c > fragment_retries

\* lines 161-162: the retries are used up and nothing may be skipped
GivesUp(c, fragment_retries, skip_unavailable_fragments) ==
    c > fragment_retries /\ ~skip_unavailable_fragments

\* a skip test that protects fragment 0 only
MaySkip_FromIndex1(skip_unavailable_fragments, i) ==
    skip_unavailable_fragments /\ i >= 1

\* a skip test that forgets skip_unavailable_fragments
MaySkip_IgnoresPolicy(skip_unavailable_fragments, i) == i > 1

\* line 173: a fragment file that cannot be opened may be skipped
MaySkip(skip_unavailable_fragments, i) == skip_unavailable_fragments /\ i > 1

\* a write that puts the new fragment in front of what was written
WriteDest_Prepends(dest_data, i, src_data) == decrypt_fragment(i, src_data) \o dest_data

\* line 178: dest.write(decrypt_fragment(fragment, src.read()))
WriteDest(dest_data, i, src_data) == dest_data \o decrypt_fragment(i, src_data)

\* a removal that forgets keep_fragments
RemovesFragment_Always(keep_fragments) == TRUE

\* line 180: the fragment file is removed after it was appended
RemovesFragment(keep_fragments) == ~keep_fragments

\* line 140: the single-file path passes the captured stderr to to_stderr
RelaysStderr(retcode) == retcode = 0

\* a URL list that is kept along with the fragments
RemovesUrlList_UnlessKept(keep_fragments) == ~keep_fragments

\* line 183: the URL list is removed whatever keep_fragments says
RemovesUrlList(keep_fragments) == TRUE

\* a success test that takes every non-negative result for success
IsSuccess_NonNegative(rv) == rv >= 0

\* line 62: the result real_download takes for success
IsSuccess(rv) == rv = 0

\* Popen(cmd, ...): a child starts
Spawn ==
    /\ proc' = "running"
    /\ stdin_q' = FALSE
    /\ sigint' = FALSE
    /\ ncalls' = ncalls + 1

\* FileDownloader.temp_name(filename): the path the download is written to
\* until it is complete, a path of its own; stdout has no temp path
temp_name(f) == IF f = "-" THEN "-" ELSE "video.part"

\* line 48
tmpfilename == temp_name(filename)

\* a command that is given the final path
cmd_output_FinalPath(tmp, final) == final

\* lines 133, 219 and 679: the output path in the child's command is the
\* path _call_downloader was given
cmd_output(tmp, final) == tmp

\* the child stores d as the content of its output file
ChildStores(d) ==
    IF cmd_output(tmpfilename, filename) = tmpfilename
    THEN tmp_file' = File(d) /\ UNCHANGED final_file
    ELSE final_file' = File(d) /\ UNCHANGED tmp_file

\* the content of the child's output file
ChildOutput ==
    IF cmd_output(tmpfilename, filename) = tmpfilename THEN tmp_file ELSE final_file

(***************************************************************************)
(* The command of the child.  A str is the sequence of its pieces, so      *)
(* that a test on how it begins and a concatenation are what they are in   *)
(* the code: 'socks5://h' is <<"socks", "5", "://", "h">>.  The value of   *)
(* an option key is None, <<>>, or <<type, piece, ...>>.                   *)
(***************************************************************************)
Str(s) == <<s>>
PyStr(s) == <<"str">> \o s
PyInt(digits) == <<"int", digits>>
PyFloat(repr) == <<"float", repr>>
PyBool(b) == <<"bool", IF b THEN "True" ELSE "False">>

\* the keys the model keeps as TLA+ booleans
BoolKeys == {"verbose", "enable_native_progress", "skip_unavailable_fragments",
             "keep_fragments"}

\* d.get(key)
get(d, key) ==
    IF key \notin DOMAIN d THEN None
    ELSE IF key \in BoolKeys THEN PyBool(d[key])
    ELSE d[key]

\* str(v): 'inf' for float('inf'), the digits for an int, s itself for a str
str(v) == Tail(v)

\* bool(v)
truthy(v) == v # None /\ v \notin {PyBool(FALSE), PyStr(<<>>), PyInt("0")}

\* utils.cli_option(params, command_option, param)
cli_option(ps, command_option, param) ==
    IF get(ps, param) = None THEN <<>>
    ELSE <<Str(command_option), str(get(ps, param))>>

\* utils.cli_bool_option(params, command_option, param, true_value,
\* false_value, separator); separator "" is the default None
cli_bool_option(ps, command_option, param, true_value, false_value, separator) ==
    IF get(ps, param) = None THEN <<>>
    ELSE LET lit == IF get(ps, param) = PyBool(TRUE) THEN true_value ELSE false_value
         IN  IF separator = "" THEN <<Str(command_option), Str(lit)>>
             ELSE << <<command_option, separator, lit>> >>

\* utils.cli_valueless_option(params, command_option, param)
cli_valueless_option(ps, command_option, param) ==
    IF get(ps, param) = PyBool(TRUE) THEN <<Str(command_option)>> ELSE <<>>

\* utils._configuration_args(...): the extra arguments the user gave for
\* this backend (for ffmpeg: for the output side)
configuration_args == get(params, "external_downloader_args")

\* lines 197-199, 234-236, 247-249, 289-291: one flag and one 'key: val'
\* per header, in the order of the mapping
RECURSIVE header_args(_, _)
header_args(flag, headers) ==
    IF headers = <<>> THEN <<>>
    ELSE <<Str(flag), <<headers[1][1], ": ", headers[1][2]>>>>
             \o header_args(flag, Tail(headers))

\* lines 88-94: self.exe
exe == Str(klass)

\* a translation that knows 'inf' only
retry_value_OnlyInf(v, unbounded) == IF v = Str("inf") THEN Str(unbounded) ELSE v

\* lines 207-208 and 253-254: the sentinel becomes the backend's literal
retry_value(v, unbounded) ==
    IF v \in {Str("inf"), Str("infinite")} THEN Str(unbounded) ELSE v

\* lines 205-209 and 251-255
retry_args(command_option, unbounded) ==
    LET retry == cli_option(params, command_option, "retries")
    IN  IF Len(retry) = 2 THEN <<retry[1], retry_value(retry[2], unbounded)>>
        ELSE <<>>

\* lines 195-216
CurlFD_make_cmd(tmp) ==
    <<exe>> \o <<Str("--location"), Str("-o"), Str(tmp), Str("--compressed")>>
      \o header_args("--header", get(info_dict, "http_headers"))
      \o cli_bool_option(params, "--continue-at", "continuedl", "-", "0", "")
      \o cli_valueless_option(params, "--silent", "noprogress")
      \o cli_valueless_option(params, "--verbose", "verbose")
      \o cli_option(params, "--limit-rate", "ratelimit")
      \o retry_args("--retry", "2147483647")
      \o cli_option(params, "--max-filesize", "max_filesize")
      \o cli_option(params, "--interface", "source_address")
      \o cli_option(params, "--proxy", "proxy")
      \o cli_valueless_option(params, "--insecure", "nocheckcertificate")
      \o configuration_args
      \o <<Str("--"), Str(info_dict.url)>>

\* lines 257-260: both variables, when the proxy is not empty
wget_proxy_args ==
    IF truthy(get(params, "proxy"))
    THEN <<Str("--execute"), <<"http_proxy", "=">> \o str(get(params, "proxy")),
           Str("--execute"), <<"https_proxy", "=">> \o str(get(params, "proxy"))>>
    ELSE <<>>

\* lines 245-264
WgetFD_make_cmd(tmp) ==
    <<exe>> \o <<Str("-O"), Str(tmp), Str("-nv"), Str("--no-cookies"),
             Str("--compression=auto")>>
      \o header_args("--header", get(info_dict, "http_headers"))
      \o cli_option(params, "--limit-rate", "ratelimit")
      \o retry_args("--tries", "0")
      \o cli_option(params, "--bind-address", "source_address")
      \o wget_proxy_args
      \o cli_valueless_option(params, "--no-check-certificate", "nocheckcertificate")
      \o configuration_args
      \o <<Str("--"), Str(info_dict.url)>>

\* the pieces [\da-zA-Z]+ matches
IsAlnum(piece) == piece \in {"socks", "5", "http", "h"}

\* re.match(r'^[\da-zA-Z]+://', s)
MatchesScheme(s) ==
    \E k \in 1..(Len(s) - 1) : s[k + 1] = "://" /\ \A j \in 1..k : IsAlnum(s[j])

\* a test that wants a version after 'socks'
MatchesSocks_NeedsVersion(s) ==
    /\ Len(s) >= 3
    /\ s[1] = "socks"
    /\ \E k \in 2..(Len(s) - 1) : s[k + 1] = "://" /\ \A j \in 2..k : IsAlnum(s[j])

\* re.match(r'^socks[\da-zA-Z]*://', s)
MatchesSocks(s) ==
    /\ Len(s) >= 2
    /\ s[1] = "socks"
    /\ \E k \in 1..(Len(s) - 1) : s[k + 1] = "://" /\ \A j \in 2..k : IsAlnum(s[j])

\* s.startswith('socks'): a leading 'socks' is a piece of its own
StartsWithSocks(s) == s # <<>> /\ s[1] = "socks"

\* lines 295-299: the warning of Aria2cFD._make_cmd
aria2c_warnings ==
    IF /\ get(params, "proxy") # None
       /\ get(params, "proxy")[1] = "str"
       /\ MatchesSocks(str(get(params, "proxy")))
    THEN <<"socks">> ELSE <<>>

\* lines 345-347: Aria2cFD._call_downloader puts '__rpc_port' into info_dict
aria2c_use_native_progress == params.enable_native_progress /\ ~params.verbose

\* lines 280-338; the temp path has no directory part, and the port is
\* whatever find_available_port() gave
Aria2cFD_make_cmd(tmp) ==
    <<exe>> \o <<Str("-c"), Str("--console-log-level=warn"), Str("--summary-interval=0"),
             Str("--download-result=hide"), Str("--http-accept-gzip=true"),
             Str("--file-allocation=none"), Str("-x16"), Str("-j16"), Str("-s16")>>
      \o (IF HasFragments
          THEN <<Str("--allow-overwrite=true"), Str("--allow-piece-length-change=true")>>
          ELSE <<Str("--min-split-size"), Str("1M")>>)
      \o header_args("--header", get(info_dict, "http_headers"))
      \o cli_option(params, "--max-overall-download-limit", "ratelimit")
      \o cli_option(params, "--interface", "source_address")
      \o cli_option(params, "--all-proxy", "proxy")
      \o cli_bool_option(params, "--check-certificate", "nocheckcertificate",
                         "false", "true", "=")
      \o cli_bool_option(params, "--remote-time", "updatetime", "true", "false", "=")
      \o cli_bool_option(params, "--show-console-readout", "noprogress",
                         "false", "true", "=")
      \o configuration_args
      \o (IF aria2c_use_native_progress
          THEN <<Str("--enable-rpc"), <<"--rpc-listen-port=", "port">>>>
          ELSE <<>>)
      \o (IF HasFragments THEN <<>> ELSE <<Str("--out"), <<"./", tmp>>>>)
      \o <<Str("--auto-file-renaming=false")>>
      \o (IF HasFragments
          THEN <<Str("--file-allocation=none"), Str("--uri-selector=inorder"),
                 Str("-i"), <<tmp, ".frag.urls">>>>
          ELSE <<Str("--"), Str(info_dict.url)>>)

\* line 133: self._make_cmd(tmpfilename, info_dict) of the class at hand
make_cmd(tmp) ==
    IF klass = "curl" THEN CurlFD_make_cmd(tmp)
    ELSE IF klass = "wget" THEN WgetFD_make_cmd(tmp)
    ELSE Aria2cFD_make_cmd(tmp)

(***************************************************************************)
(* The command FFmpegFD._call_downloader plans, lines 507-681, for one     *)
(* input url.  The keys of info_dict that no explored task carries         *)
(* (downloader_options, _ffmpeg_args, _seekable, the rtmp metadata,        *)
(* input_params, output_params, requested_formats, acodec) add nothing,    *)
(* and ffpp._features is taken not to ask for aac_adtstoasc.               *)
(***************************************************************************)
\* lines 530 and 588: the local variable live
ffmpeg_live ==
    IF info_dict.protocol = <<"rtmp">> THEN info_dict.rtmp_live
    ELSE info_dict.live \/ info_dict.is_live

\* url in ('-', 'pipe:')
UrlIsPipe == info_dict.url \in {"-", "pipe:"}

\* re.match(r'^https?://', url): "u" stands for an https url
IsHttpUrl(url) == url = "u"

\* a test on the destination in place of the input
use_native_progress_ByDestination ==
    /\ params.enable_native_progress
    /\ ~params.verbose
    /\ ~ffmpeg_live
    /\ filename # "-"

\* lines 672-676
use_native_progress ==
    /\ params.enable_native_progress
    /\ ~params.verbose
    /\ ~ffmpeg_live
    /\ ~UrlIsPipe

\* lines 522-528
ffmpeg_loglevel_args ==
    (IF truthy(get(params, "quiet")) THEN <<Str("-loglevel"), Str("quiet")>>
     ELSE IF params.verbose THEN <<Str("-loglevel"), Str("verbose")>>
     ELSE <<>>)
      \o (IF params.verbose THEN <<>> ELSE <<Str("-hide_banner")>>)

\* lines 560-561: a proxy without a scheme is an http proxy
ffmpeg_proxy(s) == IF MatchesScheme(s) THEN s ELSE <<"http", "://">> \o s

\* an environment that is changed for a proxy ffmpeg can use only
ffmpeg_env_NotForSocks(proxy) ==
    IF truthy(proxy) /\ ~StartsWithSocks(ffmpeg_proxy(str(proxy)))
    THEN <<<<"HTTP_PROXY", ffmpeg_proxy(str(proxy))>>,
           <<"http_proxy", ffmpeg_proxy(str(proxy))>>>>
    ELSE None

\* lines 557-574: env stays None, or is a copy of os.environ with these
\* variables set
ffmpeg_env(proxy) ==
    IF truthy(proxy)
    THEN <<<<"HTTP_PROXY", ffmpeg_proxy(str(proxy))>>,
           <<"http_proxy", ffmpeg_proxy(str(proxy))>>>>
    ELSE None

\* EXT_TO_OUT_FORMATS.get(ext, ext)
EXT_TO_OUT_FORMATS(ext) == IF ext = "mkv" THEN "matroska" ELSE ext

\* determine_ext(remove_end(tmpfilename, '.part')): the explored names
\* carry no extension
determine_ext(tmp) == "unknown_video"

\* a planner that lets a live source win over an explicit choice
use_mpegts_LiveWins(tmp, hls_use_mpegts, is_live) ==
    tmp = "-" \/ hls_use_mpegts = PyBool(TRUE) \/ is_live

\* lines 645-647
use_mpegts(tmp, hls_use_mpegts, is_live) ==
    IF tmp = "-" THEN TRUE
    ELSE IF hls_use_mpegts = None THEN is_live
    ELSE truthy(hls_use_mpegts)

\* lines 643-668: the output format
ffmpeg_format_args(tmp) ==
    IF info_dict.protocol \in {<<"m3u8">>, <<"m3u8_native">>}
    THEN IF use_mpegts(tmp, get(params, "hls_use_mpegts"), info_dict.is_live)
         THEN <<Str("-f"), Str("mpegts")>>
         ELSE <<Str("-f"), Str("mp4")>>
    ELSE IF info_dict.protocol = <<"rtmp">> THEN <<Str("-f"), Str("flv")>>
    ELSE IF info_dict.ext = "mp4" /\ tmp = "-" THEN <<Str("-f"), Str("mpegts")>>
    ELSE IF info_dict.ext = "unknown_video"
    THEN IF determine_ext(tmp) = "unknown_video" THEN <<>>
         ELSE <<Str("-f"), Str(EXT_TO_OUT_FORMATS(determine_ext(tmp)))>>
    ELSE <<Str("-f"), Str(EXT_TO_OUT_FORMATS(info_dict.ext))>>

\* lines 559-566, 578-579 and 658-666: the warnings of one plan, in order
ffmpeg_warnings(tmp) ==
    (IF truthy(get(params, "proxy"))
         /\ StartsWithSocks(ffmpeg_proxy(str(get(params, "proxy"))))
     THEN <<"socks">> ELSE <<>>)
      \o (IF info_dict.protocol = <<"ffmpeg">> THEN <<"deprecated">> ELSE <<>>)
      \o (IF /\ info_dict.protocol \notin {<<"m3u8">>, <<"m3u8_native">>, <<"rtmp">>}
             /\ ~(info_dict.ext = "mp4" /\ tmp = "-")
             /\ info_dict.ext = "unknown_video"
          THEN <<"unknown_format">> ELSE <<>>)

\* line 619: section_start or 0, and section_end; a time is <<seconds>>
start_time ==
    IF get(info_dict, "section_start") = None THEN 0
    ELSE get(info_dict, "section_start")[1]

end_time == get(info_dict, "section_end")

\* the truth of "start_time or end_time"
SectionGiven == start_time # 0 \/ (end_time # None /\ end_time[1] # 0)

\* a planner that copies the streams whatever the options say
StreamCopy_Always(force_keyframes_at_cuts) == TRUE

\* lines 632-633
StreamCopy(force_keyframes_at_cuts) ==
    ~SectionGiven \/ ~truthy(force_keyframes_at_cuts)

\* lines 621-629: the arguments of the only input
ffmpeg_input_args ==
    (IF get(info_dict, "http_headers") # None /\ IsHttpUrl(info_dict.url)
     THEN <<Str("-headers"), Str("headers")>> ELSE <<>>)
      \o (IF start_time # 0 THEN <<Str("-ss"), Str(ToString(start_time))>> ELSE <<>>)
      \o (IF end_time # None /\ end_time[1] # 0
          THEN <<Str("-t"), Str(ToString(end_time[1] - start_time))>> ELSE <<>>)
      \o <<Str("-i"), Str(info_dict.url)>>

\* ffpp._ffmpeg_filename_argument(tmpfilename)
ffmpeg_filename_argument(tmp) == IF tmp = "-" THEN <<"-">> ELSE <<"file:", tmp>>

\* lines 680-681
progress_args(use_native) ==
    IF use_native
    THEN <<Str("-progress"), Str("pipe:1"), Str("-stats_period"), Str("0.1")>>
    ELSE <<>>

\* lines 520-681: args as Popen gets them; out is the path of the output
ffmpeg_args(tmp, out) ==
    <<exe>> \o <<Str("-y")>>
      \o ffmpeg_loglevel_args
      \o (IF info_dict.protocol = <<"rtmp">> /\ info_dict.rtmp_live
          THEN <<Str("-rtmp_live"), Str("live")>> ELSE <<>>)
      \o ffmpeg_input_args
      \o (IF StreamCopy(get(params, "force_keyframes_at_cuts"))
          THEN <<Str("-c"), Str("copy")>> ELSE <<>>)
      \o (IF info_dict.protocol = <<"http_dash_segments">>
          THEN <<Str("-map"), Str("0:0")>> ELSE <<>>)
      \o (IF truthy(get(params, "test")) THEN <<Str("-fs"), Str("10241")>> ELSE <<>>)
      \o ffmpeg_format_args(tmp)
      \o configuration_args
      \o <<ffmpeg_filename_argument(out)>>
      \o progress_args(use_native_progress)

(***************************************************************************)
(* ExternalFD._call_downloader, lines 132-147: build the command (for      *)
(* aria2c on fragments _make_cmd writes the URL list file, lines 325-335)  *)
(* and either start the only child or enter the retry loop.  A child that  *)
(* writes a single output file creates it at the temp path as it starts.   *)
(***************************************************************************)
call_downloader ==
    /\ pc = "call"
    /\ klass \in {"aria2c", "wget"}
    /\ urls_file' = (urls_file \/ (klass = "aria2c" /\ HasFragments))
    /\ cmd' = make_cmd(cmd_output(tmpfilename, filename))
    /\ warnings' = warnings \o (IF klass = "aria2c" THEN aria2c_warnings ELSE <<>>)
    /\ IF HasFragments
       THEN /\ count' = 0
            /\ pc' = "loop"
            /\ UNCHANGED <<proc, stdin_q, sigint, ncalls, tmp_file, final_file>>
       ELSE /\ Spawn
            /\ ChildStores(<<>>)
            /\ pc' = "proc"
            /\ UNCHANGED count
    /\ UNCHANGED <<klass, params, info_dict, filename, host, frag_index,
                   retval, result, native, interrupted, rcs, captured,
                   nsleeps, frag_files, dest_open, on_open, last_written,
                   appended, skipped, stderr_out, errors, events, status,
                   aktiva, completed, requests, exc, polled, iters, branch,
                   nsamples, rpc_sleeps, npolls, last_sample, bad_id_at, env,
                   name, encoding, longname, runtime, version_info, fs,
                   newcontent, expected_sum, update_ret, hierarchy, ies,
                   classes, returned_classes, yielded>>

\* line 148: the loop test; line 149 starts a child when it holds
retry_loop ==
    /\ pc = "loop"
    /\ IF LoopContinues(count, params.fragment_retries)
       THEN /\ Spawn
            /\ pc' = "proc"
       ELSE /\ pc' = "after_loop"
            /\ UNCHANGED <<proc, stdin_q, sigint, ncalls>>
    /\ UNCHANGED <<klass, params, info_dict, filename, host, count,
                   frag_index, retval, result, native, interrupted, rcs,
                   captured, nsleeps, frag_files, tmp_file, final_file,
                   urls_file, dest_open, on_open, last_written, appended,
                   skipped, stderr_out, errors, events, status, aktiva,
                   completed, requests, exc, polled, iters, branch, nsamples,
                   rpc_sleeps, npolls, last_sample, bad_id_at, cmd, warnings,
                   env, name, encoding, longname, runtime, version_info, fs,
                   newcontent, expected_sum, update_ret, hierarchy, ies,
                   classes, returned_classes, yielded>>

(***************************************************************************)
(* The child while _call_process waits in communicate_or_kill.             *)
(***************************************************************************)
\* the backend stores (or overwrites) one fragment file; any order
child_writes_fragment ==
    /\ pc = "proc" /\ proc = "running" /\ HasFragments
    /\ \E i \in 0..(NumFrags - 1), b \in PayloadBytes :
           /\ frag_files[i] # File(FragBytes(i, b))
           /\ frag_files' = [frag_files EXCEPT ![i] = File(FragBytes(i, b))]
           /\ last_written' = i
    /\ UNCHANGED <<klass, params, info_dict, filename, host, pc, count,
                   frag_index, retval, result, proc, stdin_q, sigint, native,
                   ncalls, interrupted, rcs, captured, nsleeps, tmp_file,
                   final_file, urls_file, dest_open, on_open, appended,
                   skipped, stderr_out, errors, events, status, aktiva,
                   completed, requests, exc, polled, iters, branch, nsamples,
                   rpc_sleeps, npolls, last_sample, bad_id_at, cmd, warnings,
                   env, name, encoding, longname, runtime, version_info, fs,
                   newcontent, expected_sum, update_ret, hierarchy, ies,
                   classes, returned_classes, yielded>>

\* the backend appends to its single output file
child_writes_output ==
    /\ pc = "proc" /\ proc = "running" /\ ~HasFragments /\ tmpfilename # "-"
    /\ Len(ChildOutput.data) < 1
    /\ \E b \in PayloadBytes : ChildStores(Append(ChildOutput.data, b))
    /\ UNCHANGED <<klass, params, info_dict, filename, host, pc, count,
                   frag_index, retval, result, proc, stdin_q, sigint, native,
                   ncalls, interrupted, rcs, captured, nsleeps, frag_files,
                   urls_file, dest_open, on_open, last_written, appended,
                   skipped, stderr_out, errors, events, status, aktiva,
                   completed, requests, exc, polled, iters, branch, nsamples,
                   rpc_sleeps, npolls, last_sample, bad_id_at, cmd, warnings,
                   env, name, encoding, longname, runtime, version_info, fs,
                   newcontent, expected_sum, update_ret, hierarchy, ies,
                   classes, returned_classes, yielded>>

(***************************************************************************)
(* ExternalFD._call_process returns (lines 186-189), single-file task:     *)
(* lines 139-142.                                                          *)
(***************************************************************************)
call_process_single ==
    /\ pc = "proc" /\ proc = "running"
    /\ klass \in {"aria2c", "wget"} /\ ~HasFragments
    /\ \E retcode \in ExitCodes, stderr \in StderrBlobs :
           /\ proc' = "exited"
           /\ rcs' = Append(rcs, retcode)
           /\ captured' = stderr
           /\ stderr_out' = IF RelaysStderr(retcode)
                            THEN Append(stderr_out, decode_replace(stderr))
                            ELSE stderr_out
           /\ retval' = retcode
    /\ pc' = "ret"
    /\ UNCHANGED <<klass, params, info_dict, filename, host, count,
                   frag_index, result, stdin_q, sigint, native, ncalls,
                   interrupted, nsleeps, frag_files, tmp_file, final_file,
                   urls_file, dest_open, on_open, last_written, appended,
                   skipped, errors, events, status, aktiva, completed,
                   requests, exc, polled, iters, branch, nsamples, rpc_sleeps,
                   npolls, last_sample, bad_id_at, cmd, warnings, env, name,
                   encoding, longname, runtime, version_info, fs, newcontent,
                   expected_sum, update_ret, hierarchy, ies, classes,
                   returned_classes, yielded>>

(***************************************************************************)
(* ExternalFD._call_process returns inside the retry loop: lines 149-160.  *)
(***************************************************************************)
call_process_fragments ==
    /\ pc = "proc" /\ proc = "running"
    /\ klass \in {"aria2c", "wget"} /\ HasFragments
    /\ \E retcode \in ExitCodes, stderr \in StderrBlobs :
           /\ proc' = "exited"
           /\ rcs' = Append(rcs, retcode)
           /\ captured' = stderr
           /\ IF retcode = 0
              THEN /\ pc' = "after_loop"
                   /\ UNCHANGED <<count, stderr_out, nsleeps>>
              ELSE /\ stderr_out' = Append(stderr_out, decode_replace(stderr))
                   /\ count' = count + 1
                   /\ nsleeps' = IF SleepsBeforeRetry(count + 1, params.fragment_retries)
                                 THEN nsleeps + 1 ELSE nsleeps
                   /\ pc' = "loop"
    /\ UNCHANGED <<klass, params, info_dict, filename, host, frag_index,
                   retval, result, stdin_q, sigint, native, ncalls,
                   interrupted, frag_files, tmp_file, final_file, urls_file,
                   dest_open, on_open, last_written, appended, skipped,
                   errors, events, status, aktiva, completed, requests, exc,
                   polled, iters, branch, nsamples, rpc_sleeps, npolls,
                   last_sample, bad_id_at, cmd, warnings, env, name, encoding,
                   longname, runtime, version_info, fs, newcontent,
                   expected_sum, update_ret, hierarchy, ies, classes,
                   returned_classes, yielded>>

(***************************************************************************)
(* Lines 161-167: after the loop, give up or open the destination.         *)
(***************************************************************************)
after_loop ==
    /\ pc = "after_loop"
    /\ IF GivesUp(count, params.fragment_retries, params.skip_unavailable_fragments)
       THEN /\ errors' = Append(errors, <<"giving_up", params.fragment_retries>>)
            /\ retval' = -1
            /\ pc' = "ret"
            /\ UNCHANGED <<frag_index, tmp_file, dest_open, on_open>>
       ELSE /\ tmp_file' = File(<<>>)
            /\ dest_open' = TRUE
            /\ on_open' = frag_files
            /\ frag_index' = 0
            /\ pc' = "reassemble"
            /\ UNCHANGED <<errors, retval>>
    /\ UNCHANGED <<klass, params, info_dict, filename, host, count, result,
                   proc, stdin_q, sigint, native, ncalls, interrupted, rcs,
                   captured, nsleeps, frag_files, final_file, urls_file,
                   last_written, appended, skipped, stderr_out, events,
                   status, aktiva, completed, requests, exc, polled, iters,
                   branch, nsamples, rpc_sleeps, npolls, last_sample,
                   bad_id_at, cmd, warnings, env, name, encoding, longname,
                   runtime, version_info, fs, newcontent, expected_sum,
                   update_ret, hierarchy, ies, classes, returned_classes,
                   yielded>>

(***************************************************************************)
(* Lines 168-181: one iteration of the reassembly loop.                    *)
(***************************************************************************)
reassemble_fragment ==
    /\ pc = "reassemble"
    /\ frag_index < NumFrags
    /\ IF ~frag_files[frag_index].exists
       THEN IF MaySkip(params.skip_unavailable_fragments, frag_index)
            THEN /\ skipped' = Append(skipped, frag_index)
                 /\ frag_index' = frag_index + 1
                 /\ UNCHANGED <<pc, retval, errors, tmp_file, frag_files, appended>>
            ELSE /\ errors' = Append(errors, <<"unable_to_open_fragment", frag_index>>)
                 /\ retval' = -1
                 /\ pc' = "ret"
                 /\ UNCHANGED <<frag_index, skipped, tmp_file, frag_files, appended>>
       ELSE /\ tmp_file' = File(WriteDest(tmp_file.data, frag_index,
                                          frag_files[frag_index].data))
            /\ appended' = Append(appended, frag_index)
            /\ frag_files' = IF RemovesFragment(params.keep_fragments)
                             THEN [frag_files EXCEPT ![frag_index] = NoFile]
                             ELSE frag_files
            /\ frag_index' = frag_index + 1
            /\ UNCHANGED <<pc, retval, errors, skipped>>
    /\ UNCHANGED <<klass, params, info_dict, filename, host, count, result,
                   proc, stdin_q, sigint, native, ncalls, interrupted, rcs,
                   captured, nsleeps, final_file, urls_file, dest_open,
                   on_open, last_written, stderr_out, events, status, aktiva,
                   completed, requests, exc, polled, iters, branch, nsamples,
                   rpc_sleeps, npolls, last_sample, bad_id_at, cmd, warnings,
                   env, name, encoding, longname, runtime, version_info, fs,
                   newcontent, expected_sum, update_ret, hierarchy, ies,
                   classes, returned_classes, yielded>>

\* lines 182-184: close the destination, remove the URL list, return 0
reassemble_finish ==
    /\ pc = "reassemble"
    /\ frag_index >= NumFrags
    /\ dest_open' = FALSE
    /\ urls_file' = (urls_file /\ ~RemovesUrlList(params.keep_fragments))
    /\ retval' = 0
    /\ pc' = "ret"
    /\ UNCHANGED <<klass, params, info_dict, filename, host, count,
                   frag_index, result, proc, stdin_q, sigint, native, ncalls,
                   interrupted, rcs, captured, nsleeps, frag_files, tmp_file,
                   final_file, on_open, last_written, appended, skipped,
                   stderr_out, errors, events, status, aktiva, completed,
                   requests, exc, polled, iters, branch, nsamples, rpc_sleeps,
                   npolls, last_sample, bad_id_at, cmd, warnings, env, name,
                   encoding, longname, runtime, version_info, fs, newcontent,
                   expected_sum, update_ret, hierarchy, ies, classes,
                   returned_classes, yielded>>

(***************************************************************************)
(* CurlFD._call_downloader, lines 218-226: stderr is not captured.         *)
(***************************************************************************)
curl_call_downloader ==
    /\ pc = "call"
    /\ klass = "curl"
    /\ cmd' = make_cmd(cmd_output(tmpfilename, filename))
    /\ Spawn
    /\ ChildStores(<<>>)
    /\ pc' = "proc"
    /\ UNCHANGED <<klass, params, info_dict, filename, host, count,
                   frag_index, retval, result, native, interrupted, rcs,
                   captured, nsleeps, frag_files, urls_file, dest_open,
                   on_open, last_written, appended, skipped, stderr_out,
                   errors, events, status, aktiva, completed, requests, exc,
                   polled, iters, branch, nsamples, rpc_sleeps, npolls,
                   last_sample, bad_id_at, warnings, env, name, encoding,
                   longname, runtime, version_info, fs, newcontent,
                   expected_sum, update_ret, hierarchy, ies, classes,
                   returned_classes, yielded>>

curl_returns ==
    /\ pc = "proc" /\ proc = "running"
    /\ klass = "curl"
    /\ \E retcode \in ExitCodes :
           /\ rcs' = Append(rcs, retcode)
           /\ retval' = retcode
    /\ proc' = "exited"
    /\ pc' = "ret"
    /\ UNCHANGED <<klass, params, info_dict, filename, host, count,
                   frag_index, result, stdin_q, sigint, native, ncalls,
                   interrupted, captured, nsleeps, frag_files, tmp_file,
                   final_file, urls_file, dest_open, on_open, last_written,
                   appended, skipped, stderr_out, errors, events, status,
                   aktiva, completed, requests, exc, polled, iters, branch,
                   nsamples, rpc_sleeps, npolls, last_sample, bad_id_at, cmd,
                   warnings, env, name, encoding, longname, runtime,
                   version_info, fs, newcontent, expected_sum, update_ret,
                   hierarchy, ies, classes, returned_classes, yielded>>

(***************************************************************************)
(* KeyboardInterrupt while ExternalFD._call_process or CurlFD waits in     *)
(* Popen.communicate_or_kill: the child is killed and the interrupt goes   *)
(* up to real_download, lines 53-60.                                       *)
(***************************************************************************)
\* real_download, line 54: the interrupt is taken for a normal end
InterruptIsSuccess(is_live) == is_live

interrupt ==
    /\ pc = "proc" /\ proc = "running"
    /\ klass \in {"aria2c", "wget", "curl"}
    /\ interrupted' = TRUE
    /\ proc' = "killed"
    /\ IF InterruptIsSuccess(info_dict.is_live)
       THEN /\ retval' = 0
            /\ pc' = "ret"
       ELSE /\ pc' = "raised"
            /\ UNCHANGED retval
    /\ UNCHANGED <<klass, params, info_dict, filename, host, count,
                   frag_index, result, stdin_q, sigint, native, ncalls, rcs,
                   captured, nsleeps, frag_files, tmp_file, final_file,
                   urls_file, dest_open, on_open, last_written, appended,
                   skipped, stderr_out, errors, events, status, aktiva,
                   completed, requests, exc, polled, iters, branch, nsamples,
                   rpc_sleeps, npolls, last_sample, bad_id_at, cmd, warnings,
                   env, name, encoding, longname, runtime, version_info, fs,
                   newcontent, expected_sum, update_ret, hierarchy, ies,
                   classes, returned_classes, yielded>>

(***************************************************************************)
(* FFmpegFD._call_downloader.                                              *)
(***************************************************************************)
\* lines 509-692: without ffmpeg report and return False; otherwise plan the
\* command and start the child, which creates its output file unless it
\* writes to stdout
ffmpeg_call_downloader ==
    /\ pc = "call"
    /\ klass = "ffmpeg"
    /\ IF ~host.ffmpeg_found
       THEN /\ errors' = Append(errors, <<"ffmpeg_not_found", 0>>)
            /\ retval' = PyFalse
            /\ pc' = "ret"
            /\ UNCHANGED <<proc, stdin_q, sigint, ncalls, native, tmp_file, final_file,
                           cmd, warnings, env>>
       ELSE /\ cmd' = ffmpeg_args(tmpfilename, cmd_output(tmpfilename, filename))
            /\ warnings' = warnings \o ffmpeg_warnings(tmpfilename)
            /\ env' = ffmpeg_env(get(params, "proxy"))
            /\ Spawn
            /\ native' = use_native_progress
            /\ IF tmpfilename = "-" THEN UNCHANGED <<tmp_file, final_file>>
               ELSE ChildStores(<<>>)
            /\ pc' = "proc"
            /\ UNCHANGED <<errors, retval>>
    /\ UNCHANGED <<klass, params, info_dict, filename, host, count,
                   frag_index, result, interrupted, rcs, captured, nsleeps,
                   frag_files, urls_file, dest_open, on_open, last_written,
                   appended, skipped, stderr_out, events, status, aktiva,
                   completed, requests, exc, polled, iters, branch, nsamples,
                   rpc_sleeps, npolls, last_sample, bad_id_at, name, encoding,
                   longname, runtime, version_info, fs, newcontent,
                   expected_sum, update_ret, hierarchy, ies, classes,
                   returned_classes, yielded>>

\* lines 693-704 and 719: the child exits by itself
ffmpeg_returns ==
    /\ pc = "proc" /\ proc = "running"
    /\ klass = "ffmpeg"
    /\ \E retcode \in ExitCodes :
           /\ rcs' = Append(rcs, retcode)
           /\ retval' = retcode
    /\ proc' = "exited"
    /\ pc' = "ret"
    /\ UNCHANGED <<klass, params, info_dict, filename, host, count,
                   frag_index, result, stdin_q, sigint, native, ncalls,
                   interrupted, captured, nsleeps, frag_files, tmp_file,
                   final_file, urls_file, dest_open, on_open, last_written,
                   appended, skipped, stderr_out, errors, events, status,
                   aktiva, completed, requests, exc, polled, iters, branch,
                   nsamples, rpc_sleeps, npolls, last_sample, bad_id_at, cmd,
                   warnings, env, name, encoding, longname, runtime,
                   version_info, fs, newcontent, expected_sum, update_ret,
                   hierarchy, ies, classes, returned_classes, yielded>>

\* line 711: the interrupt of a live download counts as exit code 0
FFmpegInterruptIsSuccess(live) == live

\* a test that writes the quit directive although stdin carries the input
AsksToQuit_IgnoresPipe(platform, url_is_pipe) == platform # "win32"

\* line 713: the child is asked to quit on its stdin
AsksToQuit(platform, url_is_pipe) == platform # "win32" /\ ~url_is_pipe

\* lines 696-719: KeyboardInterrupt while FFmpegFD waits for the child.
\* With native progress the inner handler sends SIGINT (taken to be
\* delivered), waits and keeps the exit code; the outer handler then either
\* writes b'q' and returns retval, or kills, waits and re-raises into
\* real_download (lines 53-60).
ffmpeg_interrupt ==
    /\ pc = "proc" /\ proc = "running"
    /\ klass = "ffmpeg"
    /\ interrupted' = TRUE
    /\ sigint' = native
    /\ \E code \in ExitCodes :
         LET rv0 == IF native THEN code ELSE -1
             rv1 == IF FFmpegInterruptIsSuccess(ffmpeg_live) THEN 0 ELSE rv0
         IN  IF AsksToQuit(host.platform, UrlIsPipe)
             THEN /\ stdin_q' = TRUE
                  /\ proc' = "exited"
                  /\ retval' = rv1
                  /\ pc' = "ret"
             ELSE /\ proc' = IF native THEN "exited" ELSE "killed"
                  /\ UNCHANGED stdin_q
                  /\ IF InterruptIsSuccess(info_dict.is_live)
                     THEN /\ retval' = 0
                          /\ pc' = "ret"
                     ELSE /\ pc' = "raised"
                          /\ UNCHANGED retval
    /\ UNCHANGED <<klass, params, info_dict, filename, host, count,
                   frag_index, result, native, ncalls, rcs, captured, nsleeps,
                   frag_files, tmp_file, final_file, urls_file, dest_open,
                   on_open, last_written, appended, skipped, stderr_out,
                   errors, events, status, aktiva, completed, requests, exc,
                   polled, iters, branch, nsamples, rpc_sleeps, npolls,
                   last_sample, bad_id_at, cmd, warnings, env, name, encoding,
                   longname, runtime, version_info, fs, newcontent,
                   expected_sum, update_ret, hierarchy, ies, classes,
                   returned_classes, yielded>>

(***************************************************************************)
(* real_download, lines 62-82.                                             *)
(***************************************************************************)
\* line 69: getsize of a temp path that does not exist raises OSError, which
\* real_download lets through
GetsizeRaises == IsSuccess(retval) /\ filename # "-" /\ ~tmp_file.exists

real_download_finish ==
    /\ pc = "ret"
    /\ IF GetsizeRaises
       THEN /\ pc' = "raised_oserror"
            /\ UNCHANGED <<final_file, tmp_file, events, result, errors>>
       ELSE /\ pc' = "done"
            /\ IF IsSuccess(retval)
               THEN /\ IF filename # "-"
                       THEN /\ final_file' = tmp_file
                            /\ tmp_file' = NoFile
                            /\ events' = Append(events,
                                   [status |-> "finished", by |-> "real_download",
                                    downloaded_bytes |-> Len(tmp_file.data)])
                       ELSE /\ events' = Append(events,
                                   [status |-> "finished", by |-> "real_download",
                                    downloaded_bytes |-> -1])
                            /\ UNCHANGED <<final_file, tmp_file>>
                    /\ result' = "True"
                    /\ UNCHANGED errors
               ELSE /\ errors' = Append(errors, <<"exited_with_code", retval>>)
                    /\ result' = "False"
                    /\ UNCHANGED <<final_file, tmp_file, events>>
    /\ UNCHANGED <<klass, params, info_dict, filename, host, count,
                   frag_index, retval, proc, stdin_q, sigint, native, ncalls,
                   interrupted, rcs, captured, nsleeps, frag_files, urls_file,
                   dest_open, on_open, last_written, appended, skipped,
                   stderr_out, status, aktiva, completed, requests, exc,
                   polled, iters, branch, nsamples, rpc_sleeps, npolls,
                   last_sample, bad_id_at, cmd, warnings, env, name, encoding,
                   longname, runtime, version_info, fs, newcontent,
                   expected_sum, update_ret, hierarchy, ies, classes,
                   returned_classes, yielded>>

Next ==
    \/ call_downloader
    \/ retry_loop
    \/ child_writes_fragment
    \/ child_writes_output
    \/ call_process_single
    \/ call_process_fragments
    \/ after_loop
    \/ reassemble_fragment
    \/ reassemble_finish
    \/ curl_call_downloader
    \/ curl_returns
    \/ interrupt
    \/ ffmpeg_call_downloader
    \/ ffmpeg_returns
    \/ ffmpeg_interrupt
    \/ real_download_finish

Spec == Init /\ [][Next]_vars


(***************************************************************************)
(* SpecRpc: one call of Aria2cFD._call_process with '__rpc_port' in        *)
(* info_dict, lines 354-470: the monitor that polls aria2c over JSON-RPC.  *)
(* The endpoint is taken to answer every request made while the child      *)
(* runs, and the assert of line 386 to be compiled in.                     *)
(***************************************************************************)
\* most iterations of the poll loop explored
MaxPolls == 2
\* most entries of an answer to aria2.tellActive explored
MaxActive == 2
\* largest len(info_dict['fragments']) explored under the monitor
MaxRpcFrags == 4

\* line 363
nr_frags == IF HasFragments THEN NumFrags ELSE -1

abs(x) == IF x < 0 THEN -x ELSE x

RECURSIVE gcd(_, _)
gcd(a, b) == IF b = 0 THEN a ELSE gcd(b, a % b)

\* a / b of two ints, b > 0: a float, kept as a fraction in lowest terms
TrueDiv(a, b) == <<a \div gcd(a, b), b \div gcd(a, b)>>

\* an int among the byte counts
Whole(a) == <<a, 1>>

\* int(s) of a decimal string, given as its digits
RECURSIVE int(_)
int(s) == IF s = <<>> THEN 0 ELSE 10 * int(SubSeq(s, 1, Len(s) - 1)) + s[Len(s)]

\* the entries aria2c reports; the numbers are decimal strings ("50", "200",
\* "300", "10", "0"): a transfer under way at 10 bytes a second and one that
\* has its bytes and moves none
ActiveEntries ==
    {[completedLength |-> <<5, 0>>, totalLength |-> <<2, 0, 0>>,
      downloadSpeed |-> <<1, 0>>],
     [completedLength |-> <<2, 0, 0>>, totalLength |-> <<2, 0, 0>>,
      downloadSpeed |-> <<0>>]}

StoppedEntries == {[totalLength |-> <<3, 0, 0>>]}

\* the answers to aria2.tellActive: no more transfers than the task has
ActiveLists ==
    UNION {[1..n -> ActiveEntries] :
              n \in 0..(IF abs(nr_frags) < MaxActive THEN abs(nr_frags) ELSE MaxActive)}

\* the answers to aria2.tellStopped [0, abs(nr_frags)] (line 417)
StoppedLists == UNION {[1..n -> StoppedEntries] : n \in 0..abs(nr_frags)}

\* sum(map(int, traverse_obj(entries, (..., field))))
RECURSIVE SumInt(_, _)
SumInt(entries, field) ==
    IF entries = <<>> THEN 0
    ELSE int(entries[1][field]) + SumInt(Tail(entries), field)

\* an id test that is never made
IdMatches_Unchecked(resp_id, sanitycheck) == TRUE

\* line 386: assert resp['id'] == sanitycheck
IdMatches(resp_id, sanitycheck) == resp_id = sanitycheck

\* the ids an answer to request number k may carry: its own, or a stale one
ResponseIds(k) == {k, k - 1}

\* a shutdown test that does not look at the active transfers
ShutdownCondition_IgnoresActive(a, c, n) == Len(c) = abs(n)

\* a shutdown test that also fires on an active transfer that has all bytes
ShutdownCondition_OrActiveComplete(a, c, n) ==
    \/ a = <<>> /\ Len(c) = abs(n)
    \/ n < 0 /\ Len(a) = 1 /\ int(a[1].completedLength) = int(a[1].totalLength)

\* line 418: not aktiva and len(completed) == abs(nr_frags)
ShutdownCondition(a, c, n) == a = <<>> /\ Len(c) = abs(n)

\* an estimate that is not scaled to the fragment count
total_bytes_Unscaled(a, c, n) == Whole(SumInt(a, "totalLength") + SumInt(c, "totalLength"))

\* lines 437-439: the estimate of the total size
total_bytes(a, c, n) ==
    IF Len(c) + Len(a) > 0
    THEN TrueDiv((SumInt(a, "totalLength") + SumInt(c, "totalLength")) * n,
                 Len(c) + Len(a))
    ELSE Whole(SumInt(a, "totalLength") + SumInt(c, "totalLength"))

\* lines 440-443: dl_all
dl_all(a, c) == SumInt(a, "completedLength") + SumInt(c, "totalLength")

\* float(s) of a decimal string without a fraction part
float(s) == Whole(int(s))

\* line 442: sum(map(float, traverse_obj(aktiva, (..., 'downloadSpeed'))))
RECURSIVE total_speed(_)
total_speed(a) ==
    IF a = <<>> THEN Whole(0)
    ELSE Whole(float(a[1].downloadSpeed)[1] + total_speed(Tail(a))[1])

\* x - y and x / y of two numbers, y > 0
FracSub(x, y) == TrueDiv(x[1] * y[2] - y[1] * x[2], x[2] * y[2])
FracDiv(x, y) == TrueDiv(x[1] * y[2], x[2] * y[1])

\* utils.try_get(0, lambda x: num / den): the quotient, and None when the
\* division raises ZeroDivisionError
try_get(num, den) == IF den[1] = 0 THEN None ELSE FracDiv(num, den)

\* an eta that forgets what has been downloaded already
eta_OfWholeFile(total, dl, speed) == try_get(total, speed)

\* lines 431, 448: 'eta': try_get(0, lambda x: (total - dl) / speed)
eta(total, dl, speed) == try_get(FracSub(total, dl), speed)

\* line 450: len(completed) + len(aktiva) // 2
fragment_index_of(a, c) == Len(c) + (Len(a) \div 2)

\* a monitor that reports only from the branches that refresh the status
EmitsSample_OnlyOnUpdate(b) == b \in {"single", "fragmented"}

\* lines 452-454: the finally clause reports whatever the try block did
EmitsSample(b) == TRUE

\* a 'finished' event that keeps the byte count of the last sample
FinishedBytes_AsDownloaded(st) == st.downloaded_bytes

\* line 461: 'downloaded_bytes': status.get('total_bytes')
FinishedBytes(st) == st.total_bytes

\* what p.poll() may return in iteration i: None while the child runs, or its
\* exit code; the child has exited when the last iteration explored ends
PollOutcomes(i) ==
    {<<c>> : c \in ExitCodes} \cup (IF i < MaxPolls THEN {None} ELSE {})

InitRpc ==
    /\ klass = "aria2c"
    /\ params = Params(0, TRUE, FALSE, TRUE, FALSE)
    /\ \E n \in -1..MaxRpcFrags :
           info_dict = Info(n, FALSE, FALSE, FALSE,
                            IF n < 0 THEN <<"http">> ELSE <<"m3u8_frag_urls">>,
                            FALSE, "u", FALSE)
    /\ filename = "video"
    /\ host = DefaultHost
    /\ supports(klass, info_dict)
    /\ pc = "rpc_call"
    /\ name = <<>>
    /\ encoding = "utf8"
    /\ NoUpdate
    /\ NoSort
    /\ InitRun

\* lines 389-408: the first event, the child, the settle sleep, the first poll
rpc_start ==
    /\ pc = "rpc_call"
    /\ aria2c_use_native_progress
    /\ status' = [status |-> "downloading", downloaded_bytes |-> Whole(0),
                  total_bytes |-> None, speed |-> None, eta |-> None,
                  fragment_index |-> IF nr_frags >= 0 THEN 0 ELSE -1,
                  fragment_count |-> IF nr_frags >= 0 THEN nr_frags ELSE -1]
    /\ nsamples' = 1
    /\ last_sample' = status'
    /\ ncalls' = ncalls + 1
    /\ stdin_q' = FALSE
    /\ sigint' = FALSE
    /\ npolls' = 1
    /\ \E o \in PollOutcomes(0) :
           /\ polled' = o
           /\ proc' = IF o = None THEN "running" ELSE "exited"
    /\ pc' = "rpc_loop"
    /\ UNCHANGED <<klass, params, info_dict, filename, host, count,
                   frag_index, retval, result, native, interrupted, rcs,
                   captured, nsleeps, frag_files, tmp_file, final_file,
                   urls_file, dest_open, on_open, last_written, appended,
                   skipped, stderr_out, errors, events, aktiva, completed,
                   requests, exc, iters, branch, rpc_sleeps, bad_id_at, cmd,
                   warnings, env, name, encoding, longname, runtime,
                   version_info, fs, newcontent, expected_sum, update_ret,
                   hierarchy, ies, classes, returned_classes, yielded>>

\* line 409: while retval is None
rpc_while ==
    /\ pc = "rpc_loop"
    /\ IF polled = None
       THEN /\ iters' = iters + 1
            /\ branch' = "none"
            /\ pc' = "rpc_active"
       ELSE /\ pc' = "rpc_after"
            /\ UNCHANGED <<iters, branch>>
    /\ UNCHANGED <<klass, params, info_dict, filename, host, count,
                   frag_index, retval, result, proc, stdin_q, sigint, native,
                   ncalls, interrupted, rcs, captured, nsleeps, frag_files,
                   tmp_file, final_file, urls_file, dest_open, on_open,
                   last_written, appended, skipped, stderr_out, errors,
                   events, status, aktiva, completed, requests, exc, polled,
                   nsamples, rpc_sleeps, npolls, last_sample, bad_id_at, cmd,
                   warnings, env, name, encoding, longname, runtime,
                   version_info, fs, newcontent, expected_sum, update_ret,
                   hierarchy, ies, classes, returned_classes, yielded>>

\* line 416: aktiva = aria2c_rpc('aria2.tellActive', [])
rpc_tellActive ==
    /\ pc = "rpc_active"
    /\ requests' = Append(requests, "aria2.tellActive")
    /\ \E rid \in ResponseIds(Len(requests) + 1), answer \in ActiveLists :
           /\ bad_id_at' = IF rid # Len(requests) + 1 THEN Len(requests) + 1
                           ELSE bad_id_at
           /\ IF IdMatches(rid, Len(requests) + 1)
              THEN /\ aktiva' = answer
                   /\ pc' = "rpc_stopped"
                   /\ UNCHANGED <<exc, branch>>
              ELSE /\ exc' = "AssertionError"
                   /\ branch' = "error"
                   /\ pc' = "rpc_finally"
                   /\ UNCHANGED aktiva
    /\ UNCHANGED <<klass, params, info_dict, filename, host, count,
                   frag_index, retval, result, proc, stdin_q, sigint, native,
                   ncalls, interrupted, rcs, captured, nsleeps, frag_files,
                   tmp_file, final_file, urls_file, dest_open, on_open,
                   last_written, appended, skipped, stderr_out, errors,
                   events, status, completed, polled, iters, nsamples,
                   rpc_sleeps, npolls, last_sample, cmd, warnings, env, name,
                   encoding, longname, runtime, version_info, fs, newcontent,
                   expected_sum, update_ret, hierarchy, ies, classes,
                   returned_classes, yielded>>

\* line 417: completed = aria2c_rpc('aria2.tellStopped', [0, abs(nr_frags)])
rpc_tellStopped ==
    /\ pc = "rpc_stopped"
    /\ requests' = Append(requests, "aria2.tellStopped")
    /\ \E rid \in ResponseIds(Len(requests) + 1), answer \in StoppedLists :
           /\ bad_id_at' = IF rid # Len(requests) + 1 THEN Len(requests) + 1
                           ELSE bad_id_at
           /\ IF IdMatches(rid, Len(requests) + 1)
              THEN /\ completed' = answer
                   /\ pc' = "rpc_decide"
                   /\ UNCHANGED <<exc, branch>>
              ELSE /\ exc' = "AssertionError"
                   /\ branch' = "error"
                   /\ pc' = "rpc_finally"
                   /\ UNCHANGED completed
    /\ UNCHANGED <<klass, params, info_dict, filename, host, count,
                   frag_index, retval, result, proc, stdin_q, sigint, native,
                   ncalls, interrupted, rcs, captured, nsleeps, frag_files,
                   tmp_file, final_file, urls_file, dest_open, on_open,
                   last_written, appended, skipped, stderr_out, errors,
                   events, status, aktiva, polled, iters, nsamples,
                   rpc_sleeps, npolls, last_sample, cmd, warnings, env, name,
                   encoding, longname, runtime, version_info, fs, newcontent,
                   expected_sum, update_ret, hierarchy, ies, classes,
                   returned_classes, yielded>>

\* lines 418-451: shut aria2c down and wait for it, or refresh the status
rpc_decide ==
    /\ pc = "rpc_decide"
    /\ pc' = "rpc_finally"
    /\ IF ShutdownCondition(aktiva, completed, nr_frags)
       THEN /\ requests' = Append(requests, "aria2.shutdown")
            /\ \E rid \in ResponseIds(Len(requests) + 1), c \in ExitCodes :
                   /\ bad_id_at' = IF rid # Len(requests) + 1
                                   THEN Len(requests) + 1 ELSE bad_id_at
                   /\ IF IdMatches(rid, Len(requests) + 1)
                      THEN /\ proc' = "exited"
                           /\ polled' = <<c>>
                           /\ branch' = "shutdown"
                           /\ UNCHANGED exc
                      ELSE /\ exc' = "AssertionError"
                           /\ branch' = "error"
                           /\ UNCHANGED <<proc, polled>>
            /\ UNCHANGED status
       ELSE /\ IF nr_frags < 0
               THEN IF aktiva = <<>>
                    THEN /\ exc' = "IndexError"
                         /\ branch' = "error"
                         /\ UNCHANGED status
                    ELSE /\ status' =
                               [status EXCEPT
                                  !.downloaded_bytes = Whole(int(aktiva[1].completedLength)),
                                  !.speed = Whole(int(aktiva[1].downloadSpeed)),
                                  !.eta = eta(Whole(int(aktiva[1].totalLength)),
                                              Whole(int(aktiva[1].completedLength)),
                                              Whole(int(aktiva[1].downloadSpeed))),
                                  !.total_bytes = Whole(int(aktiva[1].totalLength))]
                         /\ branch' = "single"
                         /\ UNCHANGED exc
               ELSE /\ status' =
                          [status EXCEPT
                             !.downloaded_bytes = Whole(dl_all(aktiva, completed)),
                             !.speed = total_speed(aktiva),
                             !.eta = eta(total_bytes(aktiva, completed, nr_frags),
                                         Whole(dl_all(aktiva, completed)),
                                         total_speed(aktiva)),
                             !.total_bytes = total_bytes(aktiva, completed, nr_frags),
                             !.fragment_index = fragment_index_of(aktiva, completed)]
                    /\ branch' = "fragmented"
                    /\ UNCHANGED exc
            /\ UNCHANGED <<requests, bad_id_at, proc, polled>>
    /\ UNCHANGED <<klass, params, info_dict, filename, host, count,
                   frag_index, retval, result, stdin_q, sigint, native,
                   ncalls, interrupted, rcs, captured, nsleeps, frag_files,
                   tmp_file, final_file, urls_file, dest_open, on_open,
                   last_written, appended, skipped, stderr_out, errors,
                   events, aktiva, completed, iters, nsamples, rpc_sleeps,
                   npolls, last_sample, cmd, warnings, env, name, encoding,
                   longname, runtime, version_info, fs, newcontent,
                   expected_sum, update_ret, hierarchy, ies, classes,
                   returned_classes, yielded>>

\* KeyboardInterrupt while the monitor waits inside the try block (in
\* urlopen or in p.wait())
rpc_interrupt ==
    /\ pc \in {"rpc_active", "rpc_stopped", "rpc_decide"}
    /\ exc' = "KeyboardInterrupt"
    /\ interrupted' = TRUE
    /\ branch' = "error"
    /\ pc' = "rpc_finally"
    /\ UNCHANGED <<klass, params, info_dict, filename, host, count,
                   frag_index, retval, result, proc, stdin_q, sigint, native,
                   ncalls, rcs, captured, nsleeps, frag_files, tmp_file,
                   final_file, urls_file, dest_open, on_open, last_written,
                   appended, skipped, stderr_out, errors, events, status,
                   aktiva, completed, requests, polled, iters, nsamples,
                   rpc_sleeps, npolls, last_sample, bad_id_at, cmd, warnings,
                   env, name, encoding, longname, runtime, version_info, fs,
                   newcontent, expected_sum, update_ret, hierarchy, ies,
                   classes, returned_classes, yielded>>

\* lines 452-456: the finally clause; then the exception goes on, the loop is
\* left (break) or the loop test is made again
rpc_finally ==
    /\ pc = "rpc_finally"
    /\ IF EmitsSample(branch)
       THEN /\ nsamples' = nsamples + 1
            /\ last_sample' = status
       ELSE UNCHANGED <<nsamples, last_sample>>
    /\ rpc_sleeps' = rpc_sleeps + 1
    /\ npolls' = npolls + 1
    /\ IF proc = "exited"
       THEN UNCHANGED <<polled, proc>>
       ELSE \E o \in PollOutcomes(iters) :
                /\ polled' = o
                /\ proc' = IF o = None THEN proc ELSE "exited"
    /\ pc' = IF exc # "none" THEN "rpc_with_exit"
             ELSE IF branch = "shutdown" THEN "rpc_after"
             ELSE "rpc_loop"
    /\ UNCHANGED <<klass, params, info_dict, filename, host, count,
                   frag_index, retval, result, stdin_q, sigint, native,
                   ncalls, interrupted, rcs, captured, nsleeps, frag_files,
                   tmp_file, final_file, urls_file, dest_open, on_open,
                   last_written, appended, skipped, stderr_out, errors,
                   events, status, aktiva, completed, requests, exc, iters,
                   branch, bad_id_at, cmd, warnings, env, name, encoding,
                   longname, runtime, version_info, fs, newcontent,
                   expected_sum, update_ret, hierarchy, ies, classes,
                   returned_classes, yielded>>

\* lines 403-404: an exception leaves the with statement.  Popen.__exit__
\* waits for the child to exit, but for a KeyboardInterrupt it waits a
\* moment only and lets the interrupt go on.
rpc_with_exit ==
    /\ pc = "rpc_with_exit"
    /\ IF proc = "exited"
       THEN UNCHANGED proc
       ELSE IF exc = "KeyboardInterrupt"
            THEN proc' \in {"running", "exited"}
            ELSE proc' = "exited"
    /\ pc' = "rpc_raised"
    /\ UNCHANGED <<klass, params, info_dict, filename, host, count,
                   frag_index, retval, result, stdin_q, sigint, native,
                   ncalls, interrupted, rcs, captured, nsleeps, frag_files,
                   tmp_file, final_file, urls_file, dest_open, on_open,
                   last_written, appended, skipped, stderr_out, errors,
                   events, status, aktiva, completed, requests, exc, polled,
                   iters, branch, nsamples, rpc_sleeps, npolls, last_sample,
                   bad_id_at, cmd, warnings, env, name, encoding, longname,
                   runtime, version_info, fs, newcontent, expected_sum,
                   update_ret, hierarchy, ies, classes, returned_classes,
                   yielded>>

\* lines 458-470: the 'finished' event after exit code 0, and the return
rpc_return ==
    /\ pc = "rpc_after"
    /\ IF polled = <<0>>
       THEN /\ status' = [status EXCEPT !.status = "finished",
                                         !.downloaded_bytes = FinishedBytes(status)]
            /\ last_sample' = status'
            /\ events' = Append(events,
                   [status |-> "finished", by |-> "rpc",
                    downloaded_bytes |-> FinishedBytes(status)])
       ELSE UNCHANGED <<status, last_sample, events>>
    /\ rcs' = Append(rcs, polled[1])
    /\ \E stderr \in StderrBlobs : captured' = stderr
    /\ pc' = "rpc_done"
    /\ UNCHANGED <<klass, params, info_dict, filename, host, count,
                   frag_index, retval, result, proc, stdin_q, sigint, native,
                   ncalls, interrupted, nsleeps, frag_files, tmp_file,
                   final_file, urls_file, dest_open, on_open, last_written,
                   appended, skipped, stderr_out, errors, aktiva, completed,
                   requests, exc, polled, iters, branch, nsamples, rpc_sleeps,
                   npolls, bad_id_at, cmd, warnings, env, name, encoding,
                   longname, runtime, version_info, fs, newcontent,
                   expected_sum, update_ret, hierarchy, ies, classes,
                   returned_classes, yielded>>

NextRpc ==
    \/ rpc_start
    \/ rpc_while
    \/ rpc_tellActive
    \/ rpc_tellStopped
    \/ rpc_decide
    \/ rpc_interrupt
    \/ rpc_finally
    \/ rpc_with_exit
    \/ rpc_return

SpecRpc == InitRpc /\ [][NextRpc]_vars


(***************************************************************************)
(* SpecRpcDownload: one real_download call on Aria2cFD for a fragmented    *)
(* task with '__rpc_port' set (lines 340-352), so that every invocation of *)
(* the retry loop runs the monitor of lines 354-470, followed by the       *)
(* reassembly and the end of real_download.                                *)
(***************************************************************************)
\* largest fragment_retries explored under the monitor
MaxMonitoredRetries == 1
\* largest len(info_dict['fragments']) explored from real_download under
\* the monitor
MaxMonitoredFrags == 2

\* lines 350-352, 355: '__rpc_port' is in the info_dict _call_process gets
RpcMonitored == klass = "aria2c" /\ aria2c_use_native_progress

InitRpcDownload ==
    /\ klass = "aria2c"
    /\ \E r \in 0..MaxMonitoredRetries, skip \in BOOLEAN :
           params = Params(r, skip, FALSE, TRUE, FALSE)
    /\ \E n \in 0..MaxMonitoredFrags :
           info_dict = Info(n, FALSE, FALSE, FALSE, <<"m3u8_frag_urls">>, FALSE,
                            "u", FALSE)
    /\ filename = "video"
    /\ host = DefaultHost
    /\ supports(klass, info_dict)
    /\ pc = "call"
    /\ name = <<>>
    /\ encoding = "utf8"
    /\ NoUpdate
    /\ NoSort
    /\ InitRun

\* line 148: the loop test; line 149 enters Aria2cFD._call_process, whose
\* locals (lines 362-363, 409-417) are fresh in every call
rpc_retry_loop ==
    /\ pc = "loop"
    /\ RpcMonitored
    /\ IF LoopContinues(count, params.fragment_retries)
       THEN /\ iters' = 0
            /\ branch' = "none"
            /\ aktiva' = <<>>
            /\ completed' = <<>>
            /\ requests' = <<>>
            /\ bad_id_at' = 0
            /\ pc' = "rpc_call"
       ELSE /\ pc' = "after_loop"
            /\ UNCHANGED <<iters, branch, aktiva, completed, requests, bad_id_at>>
    /\ UNCHANGED <<klass, params, info_dict, filename, host, count,
                   frag_index, retval, result, proc, stdin_q, sigint, native,
                   ncalls, interrupted, rcs, captured, nsleeps, frag_files,
                   tmp_file, final_file, urls_file, dest_open, on_open,
                   last_written, appended, skipped, stderr_out, errors,
                   events, status, exc, polled, nsamples, rpc_sleeps, npolls,
                   last_sample, cmd, warnings, env, name, encoding, longname,
                   runtime, version_info, fs, newcontent, expected_sum,
                   update_ret, hierarchy, ies, classes, returned_classes,
                   yielded>>

\* aria2c stores (or overwrites) one fragment file while the monitor polls
rpc_child_writes_fragment ==
    /\ pc \in {"rpc_loop", "rpc_active", "rpc_stopped", "rpc_decide"}
    /\ proc = "running"
    /\ HasFragments
    /\ \E i \in 0..(NumFrags - 1), b \in PayloadBytes :
           /\ frag_files[i] # File(FragBytes(i, b))
           /\ frag_files' = [frag_files EXCEPT ![i] = File(FragBytes(i, b))]
           /\ last_written' = i
    /\ UNCHANGED <<klass, params, info_dict, filename, host, pc, count,
                   frag_index, retval, result, proc, stdin_q, sigint, native,
                   ncalls, interrupted, rcs, captured, nsleeps, tmp_file,
                   final_file, urls_file, dest_open, on_open, appended,
                   skipped, stderr_out, errors, events, status, aktiva,
                   completed, requests, exc, polled, iters, branch, nsamples,
                   rpc_sleeps, npolls, last_sample, bad_id_at, cmd, warnings,
                   env, name, encoding, longname, runtime, version_info, fs,
                   newcontent, expected_sum, update_ret, hierarchy, ies,
                   classes, returned_classes, yielded>>

\* lines 149-160: Aria2cFD._call_process has returned (stdout, stderr,
\* retval) inside the retry loop
rpc_call_process_returns ==
    /\ pc = "rpc_done"
    /\ RpcMonitored
    /\ HasFragments
    /\ IF polled[1] = 0
       THEN /\ pc' = "after_loop"
            /\ UNCHANGED <<count, stderr_out, nsleeps>>
       ELSE /\ stderr_out' = Append(stderr_out, decode_replace(captured))
            /\ count' = count + 1
            /\ nsleeps' = IF SleepsBeforeRetry(count + 1, params.fragment_retries)
                          THEN nsleeps + 1 ELSE nsleeps
            /\ pc' = "loop"
    /\ UNCHANGED <<klass, params, info_dict, filename, host, frag_index,
                   retval, result, proc, stdin_q, sigint, native, ncalls,
                   interrupted, rcs, captured, frag_files, tmp_file,
                   final_file, urls_file, dest_open, on_open, last_written,
                   appended, skipped, errors, events, status, aktiva,
                   completed, requests, exc, polled, iters, branch, nsamples,
                   rpc_sleeps, npolls, last_sample, bad_id_at, cmd, warnings,
                   env, name, encoding, longname, runtime, version_info, fs,
                   newcontent, expected_sum, update_ret, hierarchy, ies,
                   classes, returned_classes, yielded>>

\* lines 51-55: an exception out of the monitor leaves _call_downloader;
\* real_download lets it through (a KeyboardInterrupt because the task is
\* not live, lines 53-55)
rpc_exception_leaves ==
    /\ pc = "rpc_raised"
    /\ exc # "KeyboardInterrupt" \/ ~InterruptIsSuccess(info_dict.is_live)
    /\ pc' = "raised"
    /\ UNCHANGED <<klass, params, info_dict, filename, host, count,
                   frag_index, retval, result, proc, stdin_q, sigint, native,
                   ncalls, interrupted, rcs, captured, nsleeps, frag_files,
                   tmp_file, final_file, urls_file, dest_open, on_open,
                   last_written, appended, skipped, stderr_out, errors,
                   events, status, aktiva, completed, requests, exc, polled,
                   iters, branch, nsamples, rpc_sleeps, npolls, last_sample,
                   bad_id_at, cmd, warnings, env, name, encoding, longname,
                   runtime, version_info, fs, newcontent, expected_sum,
                   update_ret, hierarchy, ies, classes, returned_classes,
                   yielded>>

NextRpcDownload ==
    \/ call_downloader
    \/ rpc_retry_loop
    \/ rpc_start
    \/ rpc_while
    \/ rpc_tellActive
    \/ rpc_tellStopped
    \/ rpc_decide
    \/ rpc_interrupt
    \/ rpc_finally
    \/ rpc_with_exit
    \/ rpc_return
    \/ rpc_child_writes_fragment
    \/ rpc_call_process_returns
    \/ rpc_exception_leaves
    \/ after_loop
    \/ reassemble_fragment
    \/ reassemble_finish
    \/ real_download_finish

SpecRpcDownload == InitRpcDownload /\ [][NextRpcDownload]_vars

(***************************************************************************)
(* SpecCmd: the command each class builds, over the options and task keys  *)
(* that command building reads.  A run is one call of _call_downloader on  *)
(* a single-file task (for aria2c also on a task of one fragment) up to    *)
(* the start of the child, and for ffmpeg to the exit of the child.        *)
(***************************************************************************)
\* params['proxy']: none, '', http://h, socks5://h, socks://h, h, socksh
Proxies ==
    {None, PyStr(<<>>), PyStr(<<"http", "://", "h">>),
     PyStr(<<"socks", "5", "://", "h">>), PyStr(<<"socks", "://", "h">>),
     PyStr(<<"h">>), PyStr(<<"socks", "h">>)}

\* params['retries']: none, 10, float('inf'), 'inf', 'infinite'
RetriesValues ==
    {None, PyInt("10"), PyFloat("inf"), PyStr(<<"inf">>), PyStr(<<"infinite">>)}

\* params['external_downloader_args'] for the class at hand
ExtraArgs == {<<>>, <<Str("--extra")>>}

\* info_dict['http_headers']
HeaderMaps == {None, <<<<"Referer", "r">>>>}

\* a single-file task on curl, wget or aria2c, or one fragment on aria2c
InitCmdMake ==
    /\ klass \in {"curl", "wget", "aria2c"}
    /\ \E np \in BOOLEAN, v \in BOOLEAN, p \in Proxies, r \in RetriesValues,
          x \in ExtraArgs :
           /\ np => klass = "aria2c"
           /\ r # None => klass # "aria2c"
           /\ params = [proxy |-> p, retries |-> r, external_downloader_args |-> x]
                          @@ Params(0, TRUE, FALSE, np, v)
    /\ \E n \in {-1, 1}, h \in HeaderMaps :
           /\ n >= 0 => klass = "aria2c"
           /\ info_dict = [http_headers |-> h]
                             @@ Info(n, FALSE, FALSE, FALSE,
                                     IF n < 0 THEN <<"http">> ELSE <<"m3u8_frag_urls">>,
                                     FALSE, "u", FALSE)
    /\ filename = "video"
    /\ host = DefaultHost

\* a task on ffmpeg
InitCmdFFmpeg ==
    /\ klass = "ffmpeg"
    /\ filename \in {"video", "-"}
    /\ \E np \in BOOLEAN, v \in BOOLEAN, p \in Proxies,
          force \in {None, PyBool(TRUE)}, x \in ExtraArgs :
           \E proto \in {"http", "m3u8", "m3u8_native", "rtmp"},
              hls \in {None, PyBool(TRUE), PyBool(FALSE)},
              e \in {"mp4", "mkv", "unknown_video"},
              il \in BOOLEAN, rl \in BOOLEAN, u \in {"u", "-"},
              ss \in {None, <<0>>, <<5>>}, se \in {None, <<10>>} :
               /\ hls # None => proto \in {"m3u8", "m3u8_native"}
               /\ e # "mp4" => proto = "http"
               /\ rl => proto = "rtmp"
               /\ il => proto # "rtmp"
               /\ params = [proxy |-> p, hls_use_mpegts |-> hls,
                            force_keyframes_at_cuts |-> force,
                            external_downloader_args |-> x]
                              @@ Params(0, TRUE, FALSE, np, v)
               /\ info_dict = [ext |-> e, section_start |-> ss, section_end |-> se]
                                 @@ Info(-1, FALSE, il, FALSE, <<proto>>, rl, u,
                                         filename = "-")
    /\ host = DefaultHost

InitCmd ==
    /\ InitCmdMake \/ InitCmdFFmpeg
    /\ supports(klass, info_dict)
    /\ pc = "call"
    /\ name = <<>>
    /\ encoding = "utf8"
    /\ NoUpdate
    /\ NoSort
    /\ InitRun

NextCmd ==
    \/ call_downloader
    \/ curl_call_downloader
    \/ ffmpeg_call_downloader
    \/ ffmpeg_returns

SpecCmd == InitCmd /\ [][NextCmd]_vars

(***************************************************************************)
(* SpecLongname: yt_dlp.longname, the transform FFmpegFD applies to the    *)
(* temp path under escape_long_names (external.py, lines 517-518), as      *)
(* test/test_longname.py pins it down: a path component that takes more    *)
(* than the limit of bytes in the encoding of the file system is cut into  *)
(* directories whose names end in '~~'; combine takes every '~~/' out.     *)
(* The limit of 255 bytes and the names are scaled down.                   *)
(***************************************************************************)
\* the most bytes a path component may take (255 in the tests)
NameLimit == 5
\* the longest name explored, in characters
MaxNameLen == 6

\* a narrow character, a wide one, and the two characters of the marker
NameChars == {"a", "W", "~", "/"}
Encodings == {"utf8", "sjis"}

\* len(c.encode(encoding)): the wide character takes 3 bytes in UTF-8 and 2
\* in Shift_JIS
char_bytes(c, enc) == IF c = "W" THEN (IF enc = "utf8" THEN 3 ELSE 2) ELSE 1

\* len(s.encode(encoding))
RECURSIVE encoded_len(_, _)
encoded_len(s, enc) ==
    IF s = <<>> THEN 0 ELSE char_bytes(s[1], enc) + encoded_len(Tail(s), enc)

\* what ends a directory made by the split
DELIMITER == <<"~", "~">>

\* the most characters of comp that fit in room bytes
RECURSIVE fit(_, _, _)
fit(comp, enc, room) ==
    IF comp = <<>> \/ char_bytes(comp[1], enc) > room THEN 0
    ELSE 1 + fit(Tail(comp), enc, room - char_bytes(comp[1], enc))

\* one path component: as it is when it fits, else its longest beginning
\* that leaves room for the delimiter, the delimiter, '/', and the rest
\* treated alike
RECURSIVE split_component(_, _)
split_component(comp, enc) ==
    IF encoded_len(comp, enc) <= NameLimit THEN comp
    ELSE LET k == fit(comp, enc, NameLimit - Len(DELIMITER))
         IN  SubSeq(comp, 1, k) \o DELIMITER \o <<"/">>
                 \o split_component(SubSeq(comp, k + 1, Len(comp)), enc)

\* the index of the first '/' of s, 0 when there is none
RECURSIVE first_sep(_)
first_sep(s) ==
    IF s = <<>> THEN 0
    ELSE IF s[1] = "/" THEN 1
    ELSE IF first_sep(Tail(s)) = 0 THEN 0 ELSE 1 + first_sep(Tail(s))

\* split_longname_str(input, encoding): component by component
RECURSIVE split_longname_str(_, _)
split_longname_str(s, enc) ==
    IF first_sep(s) = 0 THEN split_component(s, enc)
    ELSE split_component(SubSeq(s, 1, first_sep(s) - 1), enc) \o <<"/">>
             \o split_longname_str(SubSeq(s, first_sep(s) + 1, Len(s)), enc)

\* a combine that leaves the name as it is
combine_longname_str_Unchanged(s) == s

\* combine_longname_str(input): every delimiter followed by '/' is taken out
RECURSIVE combine_longname_str(_)
combine_longname_str(s) ==
    IF Len(s) < Len(DELIMITER) + 1 THEN s
    ELSE IF SubSeq(s, 1, Len(DELIMITER) + 1) = DELIMITER \o <<"/">>
    THEN combine_longname_str(SubSeq(s, Len(DELIMITER) + 2, Len(s)))
    ELSE <<s[1]>> \o combine_longname_str(Tail(s))

\* the names explored
Names == UNION {[1..n -> NameChars] : n \in 0..MaxNameLen}

InitLongname ==
    /\ klass = "ffmpeg"
    /\ params = Params(0, TRUE, FALSE, FALSE, FALSE)
    /\ info_dict = Info(-1, FALSE, FALSE, FALSE, <<"m3u8">>, FALSE, "u", FALSE)
    /\ filename = "video"
    /\ host = DefaultHost
    /\ pc = "longname"
    /\ name \in Names
    /\ encoding \in Encodings
    /\ NoUpdate
    /\ NoSort
    /\ InitRun

\* split_longname_str(name, encoding) and combine_longname_str(name)
longname_split ==
    /\ pc = "longname"
    /\ longname' = [split |-> split_longname_str(name, encoding),
                    combined_name |-> combine_longname_str(name)]
    /\ pc' = "longname_split"
    /\ UNCHANGED <<klass, params, info_dict, filename, host, count,
                   frag_index, retval, result, proc, stdin_q, sigint, native,
                   ncalls, interrupted, rcs, captured, nsleeps, frag_files,
                   tmp_file, final_file, urls_file, dest_open, on_open,
                   last_written, appended, skipped, stderr_out, errors,
                   events, status, aktiva, completed, requests, exc, polled,
                   iters, branch, nsamples, rpc_sleeps, npolls, last_sample,
                   bad_id_at, cmd, warnings, env, name, encoding, runtime,
                   version_info, fs, newcontent, expected_sum, update_ret,
                   hierarchy, ies, classes, returned_classes, yielded>>

\* combine_longname_str of what the split returned
longname_combine ==
    /\ pc = "longname_split"
    /\ longname' = [split |-> longname.split,
                    combined_name |-> longname.combined_name,
                    combined |-> combine_longname_str(longname.split)]
    /\ pc' = "longname_done"
    /\ UNCHANGED <<klass, params, info_dict, filename, host, count,
                   frag_index, retval, result, proc, stdin_q, sigint, native,
                   ncalls, interrupted, rcs, captured, nsleeps, frag_files,
                   tmp_file, final_file, urls_file, dest_open, on_open,
                   last_written, appended, skipped, stderr_out, errors,
                   events, status, aktiva, completed, requests, exc, polled,
                   iters, branch, nsamples, rpc_sleeps, npolls, last_sample,
                   bad_id_at, cmd, warnings, env, name, encoding, runtime,
                   version_info, fs, newcontent, expected_sum, update_ret,
                   hierarchy, ies, classes, returned_classes, yielded>>

NextLongname ==
    \/ longname_split
    \/ longname_combine

SpecLongname == InitLongname /\ [][NextLongname]_vars

(***************************************************************************)
(* SpecUpdate: yt_dlp/update.py.  One behaviour is one call of run_update  *)
(* in one runtime environment against one release description, to its      *)
(* return, to the exception it lets through or to the exec of brew.  The   *)
(* calls that the code guards with 'except OSError' may fail; so may the   *)
(* fetch of the hash list and the rename that puts the old file back.      *)
(***************************************************************************)
\* yt_dlp.version.__version__, as version_tuple gives it
version == <<2022, 6>>

\* the releases the server may describe: older, the same, newer
ReleaseNames == {<<2022, 5>>, <<2022, 6>>, <<2022, 7>>}

\* a >= b of two tuples of two ints
TupleGE(a, b) == a[1] > b[1] \/ (a[1] = b[1] /\ a[2] >= b[2])

\* the runtime environments: a frozen build says where it runs and how it
\* was unpacked, a plain one how it was loaded and started
Runtimes ==
    [frozen : {TRUE}, platform : {"win32", "darwin", "linux"},
     MEIPASS : {"", "dirname_of_executable", "tmp"},
     variant : {"", "red", "white"}, architecture : {"64", "32"},
     zipimporter : {FALSE}, argv0_main : {FALSE}, git_head : {FALSE},
     is_brew : {FALSE}]
    \cup
    [frozen : {FALSE}, platform : {"linux"}, MEIPASS : {""}, variant : {"red"},
     architecture : {"64"}, zipimporter : BOOLEAN, argv0_main : BOOLEAN,
     git_head : BOOLEAN, is_brew : BOOLEAN]

\* the characters of a str
py2exe_str == <<"p", "y", "2", "e", "x", "e">>

\* lines 25-46: what _get_variant_and_executable_path returns: a tuple
\* (variant, path), or at line 36 the str 'py2exe'
get_variant_and_executable_path(rt) ==
    IF rt.frozen
    THEN LET prefix == IF rt.platform = "darwin" THEN "mac" ELSE "win"
         IN  IF rt.MEIPASS # ""
             THEN IF rt.MEIPASS = "dirname_of_executable"
                  THEN <<prefix \o "_dir", "path">>
                  ELSE IF prefix = "win" /\ rt.variant # ""
                       THEN <<"exe_" \o rt.variant, "path">>
                       ELSE <<prefix \o "_exe", "path">>
             ELSE py2exe_str
    ELSE IF rt.zipimporter THEN <<"zip", "path">>
    ELSE IF rt.argv0_main /\ rt.git_head THEN <<"source", "path">>
    ELSE IF rt.is_brew THEN <<"homebrew", "path">>
    ELSE <<"unknown", "path">>

\* lines 50-51: _get_variant_and_executable_path()[0]
detect_variant(rt) == get_variant_and_executable_path(rt)[1]

\* lines 54-66; "" is None
NON_UPDATEABLE_REASONS ==
    [k \in {"exe_red", "exe_white", "win_exe", "zip", "mac_exe", "py2exe",
            "homebrew", "win_dir", "mac_dir", "source", "unknown"} |->
        IF k \in {"win_dir", "mac_dir", "source", "unknown"} THEN k ELSE ""]

\* lines 69-70
is_non_updateable(rt) ==
    IF detect_variant(rt) \in DOMAIN NON_UPDATEABLE_REASONS
    THEN NON_UPDATEABLE_REASONS[detect_variant(rt)]
    ELSE NON_UPDATEABLE_REASONS["unknown"]

\* lines 146-154
version_labels ==
    [k \in {"zip_3", "exe_red_64", "exe_white_64", "win_exe_64", "py2exe_64",
            "win_exe_32", "mac_exe_64"} |->
        CASE k = "zip_3" -> ""
          [] k = "exe_red_64" -> "-red.exe"
          [] k = "exe_white_64" -> "-white.exe"
          [] k = "win_exe_64" -> ".exe"
          [] k = "py2exe_64" -> "_min.exe"
          [] k = "win_exe_32" -> "_x86.exe"
          [] k = "mac_exe_64" -> "_macos"]

\* '%s_%s' % (bin_or_exe, version) is a key of version_labels
HasLabel(bin_or_exe, v) == (bin_or_exe \o "_" \o v) \in DOMAIN version_labels

\* the contents a file or a download may have
Contents == {<<"good">>, <<"bad">>}

\* hashlib.sha256(content).hexdigest(): one digest per content
sha256(content) == <<"sha256">> \o content

\* a comparison that lets every download through
Mismatch_Never(actual, expected) == FALSE

\* lines 205, 247: the digest of the download is not the published one
Mismatch(actual, expected) == actual # expected

\* the release descriptions: its name, whether it has the asset of this
\* build, and the digest the asset SHA2-256SUMS lists for that asset's name
\* (None: no such asset, or the name is not in it)
VersionInfos ==
    [name : ReleaseNames, asset : BOOLEAN,
     listed_sum : {None, sha256(<<"good">>), sha256(<<"other">>)}]

\* lines 160-168
get_sha256sum == version_info.listed_sum

\* lines 110-117
calc_sha256sum(path) == sha256(fs[path].data)

\* line 233
pack_type == IF detect_variant(runtime) = "zip" THEN "3" ELSE "64"

InitUpdate ==
    /\ klass = "ffmpeg"
    /\ params = Params(0, TRUE, FALSE, FALSE, FALSE)
    /\ info_dict = Info(-1, FALSE, FALSE, FALSE, <<"m3u8">>, FALSE, "u", FALSE)
    /\ filename = "video"
    /\ host = DefaultHost
    /\ pc = "upd_call"
    /\ name = <<>>
    /\ encoding = "utf8"
    /\ runtime \in Runtimes
    /\ version_info \in VersionInfos
    /\ \E old \in {NoFile, File(<<"stale">>)}, new \in {NoFile, File(<<"stale">>)} :
           fs = [p \in {"f", "f.old", "f.new"} |->
                    IF p = "f" THEN File(<<"orig">>)
                    ELSE IF p = "f.old" THEN old ELSE new]
    /\ NoSort
    /\ InitRun

\* lines 119-136: the release is looked up; nothing to do when it is not
\* newer, and an error when this variant cannot update itself
update_check ==
    /\ pc = "upd_call"
    /\ \E fetched \in BOOLEAN :
           IF ~fetched
           THEN /\ errors' = Append(errors, <<"obtain_version_info", 0>>)
                /\ update_ret' = "None"
                /\ pc' = "upd_done"
           ELSE IF TupleGE(version, version_info.name)
           THEN /\ update_ret' = "None"
                /\ pc' = "upd_done"
                /\ UNCHANGED errors
           ELSE IF is_non_updateable(runtime) # ""
           THEN /\ errors' = Append(errors, <<is_non_updateable(runtime), 0>>)
                /\ update_ret' = "None"
                /\ pc' = "upd_done"
           ELSE /\ pc' = "upd_access"
                /\ UNCHANGED <<errors, update_ret>>
    /\ UNCHANGED <<klass, params, info_dict, filename, host, count,
                   frag_index, retval, result, proc, stdin_q, sigint, native,
                   ncalls, interrupted, rcs, captured, nsleeps, frag_files,
                   tmp_file, final_file, urls_file, dest_open, on_open,
                   last_written, appended, skipped, stderr_out, events,
                   status, aktiva, completed, requests, exc, polled, iters,
                   branch, nsamples, rpc_sleeps, npolls, last_sample,
                   bad_id_at, cmd, warnings, env, name, encoding, longname,
                   runtime, version_info, fs, newcontent, expected_sum,
                   hierarchy, ies, classes, returned_classes, yielded>>

\* lines 141-175, 232, 265, 277: the file must be writable; then the
\* variant decides how to update
update_access ==
    /\ pc = "upd_access"
    /\ \E writable \in BOOLEAN :
           IF ~writable
           THEN /\ errors' = Append(errors, <<"write_to_filename", 0>>)
                /\ update_ret' = "None"
                /\ pc' = "upd_done"
           ELSE /\ pc' = CASE detect_variant(runtime) \in
                                 {"win_exe", "exe_red", "exe_white", "py2exe"} -> "upd_exe"
                           [] detect_variant(runtime) \in {"zip", "mac_exe"} -> "upd_zip"
                           [] detect_variant(runtime) = "homebrew" -> "upd_brew"
                           [] OTHER -> "upd_raised"
                /\ UNCHANGED <<errors, update_ret>>
    /\ UNCHANGED <<klass, params, info_dict, filename, host, count,
                   frag_index, retval, result, proc, stdin_q, sigint, native,
                   ncalls, interrupted, rcs, captured, nsleeps, frag_files,
                   tmp_file, final_file, urls_file, dest_open, on_open,
                   last_written, appended, skipped, stderr_out, events,
                   status, aktiva, completed, requests, exc, polled, iters,
                   branch, nsamples, rpc_sleeps, npolls, last_sample,
                   bad_id_at, cmd, warnings, env, name, encoding, longname,
                   runtime, version_info, fs, newcontent, expected_sum,
                   hierarchy, ies, classes, returned_classes, yielded>>

\* lines 176-194: the directory, the old '.old' file, the download
update_exe_download ==
    /\ pc = "upd_exe"
    /\ \E dir_ok \in BOOLEAN, rm_ok \in BOOLEAN, dl_ok \in BOOLEAN, c \in Contents :
           IF ~dir_ok
           THEN /\ errors' = Append(errors, <<"write_to_directory", 0>>)
                /\ update_ret' = "None"
                /\ pc' = "upd_done"
                /\ UNCHANGED <<fs, newcontent>>
           ELSE IF fs["f.old"].exists /\ ~rm_ok
           THEN /\ errors' = Append(errors, <<"remove_the_old_version", 0>>)
                /\ update_ret' = "None"
                /\ pc' = "upd_done"
                /\ UNCHANGED <<fs, newcontent>>
           ELSE /\ fs' = [fs EXCEPT !["f.old"] = NoFile]
                /\ IF ~HasLabel(detect_variant(runtime), runtime.architecture)
                   THEN /\ pc' = "upd_raised"
                        /\ UNCHANGED <<errors, update_ret, newcontent>>
                   ELSE IF ~version_info.asset
                   THEN /\ errors' = Append(errors, <<"fetch_updates", 0>>)
                        /\ update_ret' = "None"
                        /\ pc' = "upd_done"
                        /\ UNCHANGED newcontent
                   ELSE IF ~dl_ok
                   THEN /\ errors' = Append(errors, <<"download_latest_version", 0>>)
                        /\ update_ret' = "None"
                        /\ pc' = "upd_done"
                        /\ UNCHANGED newcontent
                   ELSE /\ newcontent' = c
                        /\ pc' = "upd_exe_write"
                        /\ UNCHANGED <<errors, update_ret>>
    /\ UNCHANGED <<klass, params, info_dict, filename, host, count,
                   frag_index, retval, result, proc, stdin_q, sigint, native,
                   ncalls, interrupted, rcs, captured, nsleeps, frag_files,
                   tmp_file, final_file, urls_file, dest_open, on_open,
                   last_written, appended, skipped, stderr_out, events,
                   status, aktiva, completed, requests, exc, polled, iters,
                   branch, nsamples, rpc_sleeps, npolls, last_sample,
                   bad_id_at, cmd, warnings, env, name, encoding, longname,
                   runtime, version_info, expected_sum, hierarchy, ies,
                   classes, returned_classes, yielded>>

\* lines 196-200: the download is written to filename.new
update_exe_write ==
    /\ pc = "upd_exe_write"
    /\ \E written \in BOOLEAN :
           IF ~written
           THEN /\ errors' = Append(errors, <<"write_to_filename_new", 0>>)
                /\ update_ret' = "None"
                /\ pc' = "upd_done"
                /\ UNCHANGED fs
           ELSE /\ fs' = [fs EXCEPT !["f.new"] = File(newcontent)]
                /\ pc' = "upd_exe_verify"
                /\ UNCHANGED <<errors, update_ret>>
    /\ UNCHANGED <<klass, params, info_dict, filename, host, count,
                   frag_index, retval, result, proc, stdin_q, sigint, native,
                   ncalls, interrupted, rcs, captured, nsleeps, frag_files,
                   tmp_file, final_file, urls_file, dest_open, on_open,
                   last_written, appended, skipped, stderr_out, events,
                   status, aktiva, completed, requests, exc, polled, iters,
                   branch, nsamples, rpc_sleeps, npolls, last_sample,
                   bad_id_at, cmd, warnings, env, name, encoding, longname,
                   runtime, version_info, newcontent, expected_sum, hierarchy,
                   ies, classes, returned_classes, yielded>>

\* lines 202-210: the digest of filename.new against the published one; a
\* file that does not match is removed, and only a failure to remove it
\* returns
update_exe_verify ==
    /\ pc = "upd_exe_verify"
    /\ \E listed \in BOOLEAN, rm_ok \in BOOLEAN :
           IF ~listed
           THEN /\ pc' = "upd_raised"
                /\ UNCHANGED <<expected_sum, warnings, errors, fs, update_ret>>
           ELSE /\ expected_sum' = get_sha256sum
                /\ IF get_sha256sum = None
                   THEN /\ warnings' = Append(warnings, "no_hash_information")
                        /\ pc' = "upd_exe_rename"
                        /\ UNCHANGED <<errors, fs, update_ret>>
                   ELSE IF Mismatch(calc_sha256sum("f.new"), get_sha256sum)
                   THEN IF rm_ok
                        THEN /\ errors' = Append(errors, <<"verify_the_new_executable", 0>>)
                             /\ fs' = [fs EXCEPT !["f.new"] = NoFile]
                             /\ pc' = "upd_exe_rename"
                             /\ UNCHANGED <<warnings, update_ret>>
                        ELSE /\ errors' = errors \o <<<<"verify_the_new_executable", 0>>,
                                                     <<"remove_corrupt_download", 0>>>>
                             /\ update_ret' = "None"
                             /\ pc' = "upd_done"
                             /\ UNCHANGED <<warnings, fs>>
                   ELSE /\ pc' = "upd_exe_rename"
                        /\ UNCHANGED <<warnings, errors, fs, update_ret>>
    /\ UNCHANGED <<klass, params, info_dict, filename, host, count,
                   frag_index, retval, result, proc, stdin_q, sigint, native,
                   ncalls, interrupted, rcs, captured, nsleeps, frag_files,
                   tmp_file, final_file, urls_file, dest_open, on_open,
                   last_written, appended, skipped, stderr_out, events,
                   status, aktiva, completed, requests, exc, polled, iters,
                   branch, nsamples, rpc_sleeps, npolls, last_sample,
                   bad_id_at, cmd, env, name, encoding, longname, runtime,
                   version_info, newcontent, hierarchy, ies, classes,
                   returned_classes, yielded>>

\* lines 212-221: filename becomes filename.old and filename.new becomes
\* filename; when the second rename fails the first is undone
update_exe_rename ==
    /\ pc = "upd_exe_rename"
    /\ \E moved \in BOOLEAN, put \in BOOLEAN, back \in BOOLEAN :
           IF ~moved
           THEN /\ errors' = Append(errors, <<"move_current_version", 0>>)
                /\ update_ret' = "None"
                /\ pc' = "upd_done"
                /\ UNCHANGED fs
           ELSE IF ~fs["f.new"].exists \/ ~put
           THEN /\ errors' = Append(errors, <<"overwrite_current_version", 0>>)
                /\ IF back
                   THEN /\ fs' = fs
                        /\ update_ret' = "None"
                        /\ pc' = "upd_done"
                   ELSE /\ fs' = [fs EXCEPT !["f.old"] = fs["f"], !["f"] = NoFile]
                        /\ pc' = "upd_raised"
                        /\ UNCHANGED update_ret
           ELSE /\ fs' = [fs EXCEPT !["f.old"] = fs["f"], !["f"] = fs["f.new"],
                                    !["f.new"] = NoFile]
                /\ pc' = "upd_exe_popen"
                /\ UNCHANGED <<errors, update_ret>>
    /\ UNCHANGED <<klass, params, info_dict, filename, host, count,
                   frag_index, retval, result, proc, stdin_q, sigint, native,
                   ncalls, interrupted, rcs, captured, nsleeps, frag_files,
                   tmp_file, final_file, urls_file, dest_open, on_open,
                   last_written, appended, skipped, stderr_out, events,
                   status, aktiva, completed, requests, exc, polled, iters,
                   branch, nsamples, rpc_sleeps, npolls, last_sample,
                   bad_id_at, cmd, warnings, env, name, encoding, longname,
                   runtime, version_info, newcontent, expected_sum, hierarchy,
                   ies, classes, returned_classes, yielded>>

\* lines 222-230, 277: the shell that deletes filename.old later is
\* started and True returned; when it cannot be started the error is
\* reported and the assert at the end of the function is reached
update_exe_popen ==
    /\ pc = "upd_exe_popen"
    /\ \E started \in BOOLEAN :
           IF started
           THEN /\ update_ret' = "True"
                /\ pc' = "upd_done"
                /\ UNCHANGED errors
           ELSE /\ errors' = Append(errors, <<"delete_the_old_version", 0>>)
                /\ pc' = "upd_raised"
                /\ UNCHANGED update_ret
    /\ UNCHANGED <<klass, params, info_dict, filename, host, count,
                   frag_index, retval, result, proc, stdin_q, sigint, native,
                   ncalls, interrupted, rcs, captured, nsleeps, frag_files,
                   tmp_file, final_file, urls_file, dest_open, on_open,
                   last_written, appended, skipped, stderr_out, events,
                   status, aktiva, completed, requests, exc, polled, iters,
                   branch, nsamples, rpc_sleeps, npolls, last_sample,
                   bad_id_at, cmd, warnings, env, name, encoding, longname,
                   runtime, version_info, fs, newcontent, expected_sum,
                   hierarchy, ies, classes, returned_classes, yielded>>

\* lines 233-242: the download of the zip or the macOS executable
update_zip_download ==
    /\ pc = "upd_zip"
    /\ \E dl_ok \in BOOLEAN, c \in Contents :
           IF ~HasLabel(detect_variant(runtime), pack_type)
           THEN /\ pc' = "upd_raised"
                /\ UNCHANGED <<errors, update_ret, newcontent>>
           ELSE IF ~version_info.asset
           THEN /\ errors' = Append(errors, <<"fetch_updates", 0>>)
                /\ update_ret' = "None"
                /\ pc' = "upd_done"
                /\ UNCHANGED newcontent
           ELSE IF ~dl_ok
           THEN /\ errors' = Append(errors, <<"download_the_latest_version", 0>>)
                /\ update_ret' = "None"
                /\ pc' = "upd_done"
                /\ UNCHANGED newcontent
           ELSE /\ newcontent' = c
                /\ pc' = "upd_zip_verify"
                /\ UNCHANGED <<errors, update_ret>>
    /\ UNCHANGED <<klass, params, info_dict, filename, host, count,
                   frag_index, retval, result, proc, stdin_q, sigint, native,
                   ncalls, interrupted, rcs, captured, nsleeps, frag_files,
                   tmp_file, final_file, urls_file, dest_open, on_open,
                   last_written, appended, skipped, stderr_out, events,
                   status, aktiva, completed, requests, exc, polled, iters,
                   branch, nsamples, rpc_sleeps, npolls, last_sample,
                   bad_id_at, cmd, warnings, env, name, encoding, longname,
                   runtime, version_info, fs, expected_sum, hierarchy, ies,
                   classes, returned_classes, yielded>>

\* lines 244-248: the digest of the download against the published one
update_zip_verify ==
    /\ pc = "upd_zip_verify"
    /\ \E listed \in BOOLEAN :
           IF ~listed
           THEN /\ pc' = "upd_raised"
                /\ UNCHANGED <<expected_sum, warnings, errors, update_ret>>
           ELSE /\ expected_sum' = get_sha256sum
                /\ IF get_sha256sum = None
                   THEN /\ warnings' = Append(warnings, "no_hash_information")
                        /\ pc' = "upd_zip_write"
                        /\ UNCHANGED <<errors, update_ret>>
                   ELSE IF Mismatch(sha256(newcontent), get_sha256sum)
                   THEN /\ errors' = Append(errors, <<"verify_the_new_package", 0>>)
                        /\ update_ret' = "None"
                        /\ pc' = "upd_done"
                        /\ UNCHANGED warnings
                   ELSE /\ pc' = "upd_zip_write"
                        /\ UNCHANGED <<warnings, errors, update_ret>>
    /\ UNCHANGED <<klass, params, info_dict, filename, host, count,
                   frag_index, retval, result, proc, stdin_q, sigint, native,
                   ncalls, interrupted, rcs, captured, nsleeps, frag_files,
                   tmp_file, final_file, urls_file, dest_open, on_open,
                   last_written, appended, skipped, stderr_out, events,
                   status, aktiva, completed, requests, exc, polled, iters,
                   branch, nsamples, rpc_sleeps, npolls, last_sample,
                   bad_id_at, cmd, env, name, encoding, longname, runtime,
                   version_info, fs, newcontent, hierarchy, ies, classes,
                   returned_classes, yielded>>

\* lines 250-255: the download is written to filename.new
update_zip_write ==
    /\ pc = "upd_zip_write"
    /\ \E written \in BOOLEAN :
           IF ~written
           THEN /\ errors' = Append(errors, <<"download_current_version", 0>>)
                /\ update_ret' = "None"
                /\ pc' = "upd_done"
                /\ UNCHANGED fs
           ELSE /\ fs' = [fs EXCEPT !["f.new"] = File(newcontent)]
                /\ pc' = "upd_zip_replace"
                /\ UNCHANGED <<errors, update_ret>>
    /\ UNCHANGED <<klass, params, info_dict, filename, host, count,
                   frag_index, retval, result, proc, stdin_q, sigint, native,
                   ncalls, interrupted, rcs, captured, nsleeps, frag_files,
                   tmp_file, final_file, urls_file, dest_open, on_open,
                   last_written, appended, skipped, stderr_out, events,
                   status, aktiva, completed, requests, exc, polled, iters,
                   branch, nsamples, rpc_sleeps, npolls, last_sample,
                   bad_id_at, cmd, warnings, env, name, encoding, longname,
                   runtime, version_info, newcontent, expected_sum, hierarchy,
                   ies, classes, returned_classes, yielded>>

\* lines 257-263: filename.new replaces filename; run_update returns None
update_zip_replace ==
    /\ pc = "upd_zip_replace"
    /\ \E put \in BOOLEAN :
           /\ IF put
              THEN /\ fs' = [fs EXCEPT !["f"] = fs["f.new"], !["f.new"] = NoFile]
                   /\ UNCHANGED errors
              ELSE /\ errors' = Append(errors, <<"overwrite_current_version", 0>>)
                   /\ UNCHANGED fs
           /\ update_ret' = "None"
           /\ pc' = "upd_done"
    /\ UNCHANGED <<klass, params, info_dict, filename, host, count,
                   frag_index, retval, result, proc, stdin_q, sigint, native,
                   ncalls, interrupted, rcs, captured, nsleeps, frag_files,
                   tmp_file, final_file, urls_file, dest_open, on_open,
                   last_written, appended, skipped, stderr_out, events,
                   status, aktiva, completed, requests, exc, polled, iters,
                   branch, nsamples, rpc_sleeps, npolls, last_sample,
                   bad_id_at, cmd, warnings, env, name, encoding, longname,
                   runtime, version_info, newcontent, expected_sum, hierarchy,
                   ies, classes, returned_classes, yielded>>

\* lines 265-275: homebrew: the taps are fixed when the old one is there,
\* then brew takes the place of this process
update_homebrew ==
    /\ pc = "upd_brew"
    /\ \E old_tap \in BOOLEAN, untapped \in BOOLEAN, tapped \in BOOLEAN :
           IF old_tap /\ ~untapped
           THEN /\ errors' = Append(errors, <<"untap_old_tap", 0>>)
                /\ update_ret' = "None"
                /\ pc' = "upd_done"
           ELSE IF old_tap /\ ~tapped
           THEN /\ errors' = Append(errors, <<"tap_new_tap", 0>>)
                /\ update_ret' = "None"
                /\ pc' = "upd_done"
           ELSE /\ pc' = "upd_exec"
                /\ UNCHANGED <<errors, update_ret>>
    /\ UNCHANGED <<klass, params, info_dict, filename, host, count,
                   frag_index, retval, result, proc, stdin_q, sigint, native,
                   ncalls, interrupted, rcs, captured, nsleeps, frag_files,
                   tmp_file, final_file, urls_file, dest_open, on_open,
                   last_written, appended, skipped, stderr_out, events,
                   status, aktiva, completed, requests, exc, polled, iters,
                   branch, nsamples, rpc_sleeps, npolls, last_sample,
                   bad_id_at, cmd, warnings, env, name, encoding, longname,
                   runtime, version_info, fs, newcontent, expected_sum,
                   hierarchy, ies, classes, returned_classes, yielded>>

NextUpdate ==
    \/ update_check
    \/ update_access
    \/ update_exe_download
    \/ update_exe_write
    \/ update_exe_verify
    \/ update_exe_rename
    \/ update_exe_popen
    \/ update_zip_download
    \/ update_zip_verify
    \/ update_zip_write
    \/ update_zip_replace
    \/ update_homebrew

SpecUpdate == InitUpdate /\ [][NextUpdate]_vars

(***************************************************************************)
(* SpecSortIes: devscripts/make_lazy_extractors.py, sort_ies as build_ies  *)
(* runs it (lines 92-99, 102-122).  One behaviour is one run of the        *)
(* generator over one class hierarchy and one list of classes that ends    *)
(* with GenericIE, to its end or to the AssertionError it raises.          *)
(***************************************************************************)
\* the extractor classes besides GenericIE, and all of them
IEClasses == {"A", "B", "C"}
AllIEClasses == IEClasses \cup {"GenericIE"}

\* line 43: the bases build_ies has sort_ies ignore
ignored_bases == {"InfoExtractor", "SearchInfoExtractor"}

\* the names in the order sorted(..., key=lambda x: x.__name__) gives them
NameOrder == <<"A", "B", "C", "GenericIE">>
NameRank(n) == CHOOSE k \in 1..Len(NameOrder) : NameOrder[k] = n

\* the classes reached from S over at most n steps of h
RECURSIVE Ancestors(_, _, _)
Ancestors(h, S, n) ==
    IF n = 0 THEN S
    ELSE Ancestors(h, S \cup UNION {h[x] \cap AllIEClasses : x \in S}, n - 1)

\* c.__bases__ for every class: a class without a base among the
\* extractors derives from InfoExtractor, and no class is its own ancestor
Hierarchies ==
    {[c \in AllIEClasses |-> IF g[c] = {} THEN {"InfoExtractor"} ELSE g[c]] :
        g \in {f \in [AllIEClasses -> SUBSET AllIEClasses] :
                  \A c \in AllIEClasses :
                      c \notin Ancestors(f, f[c], Cardinality(AllIEClasses))}}

\* the lists of distinct classes
RECURSIVE Arrangements(_)
Arrangements(S) ==
    IF S = {} THEN {<<>>}
    ELSE UNION {{<<c>> \o rest : rest \in Arrangements(S \ {c})} : c \in S}

\* _ALL_CLASSES: some of the classes in some order, GenericIE last
Inputs == {l \o <<"GenericIE">> : l \in UNION {Arrangements(S) : S \in SUBSET IEClasses}}

\* the elements of a list
Elems(l) == {l[k] : k \in 1..Len(l)}

\* line 108: set(c.__bases__) - {object, *ignored_bases}
bases(c) == hierarchy[c] \ ignored_bases

\* line 111: the bases of c that are neither waiting nor returned
Missing(c) == {b \in bases(c) : b \notin Elems(classes) /\ b \notin returned_classes}

\* lines 110-114: classes.insert(0, b) for the elements of S in the order
\* of their names puts the last name first
RECURSIVE InsertedInOrder(_, _)
InsertedInOrder(S, l) ==
    IF S = {} THEN l
    ELSE LET b == CHOOSE x \in S : \A y \in S : NameRank(x) <= NameRank(y)
         IN  InsertedInOrder(S \ {b}, <<b>> \o l)

\* the bases of c inserted before the assert of line 112 fails: those
\* whose name sorts before 'GenericIE'
BeforeGenericIE(S) == {b \in S : NameRank(b) < NameRank("GenericIE")}

\* list.remove(c): the list without the first c
RECURSIVE Removed(_, _)
Removed(l, c) ==
    IF l = <<>> THEN <<>>
    ELSE IF l[1] = c THEN Tail(l)
    ELSE <<l[1]>> \o Removed(Tail(l), c)

\* line 117: bases <= returned_classes
Ready(c) == bases(c) \subseteq returned_classes

\* lines 107-121: the first class of the snapshot classes[:] at which the
\* for loop breaks (0: the loop runs to its end)
RECURSIVE BreakAt(_)
BreakAt(k) ==
    IF k > Len(classes) THEN 0
    ELSE IF Missing(classes[k]) # {} \/ Ready(classes[k]) THEN k
    ELSE BreakAt(k + 1)

InitSortIes ==
    /\ klass = "ffmpeg"
    /\ params = Params(0, TRUE, FALSE, FALSE, FALSE)
    /\ info_dict = Info(-1, FALSE, FALSE, FALSE, <<"m3u8">>, FALSE, "u", FALSE)
    /\ filename = "video"
    /\ host = DefaultHost
    /\ pc = "sort_call"
    /\ name = <<>>
    /\ encoding = "utf8"
    /\ hierarchy \in Hierarchies
    /\ ies \in Inputs
    /\ NoUpdate
    /\ InitRun

\* lines 104-105: classes, returned_classes, and the assert on the last IE
sort_start ==
    /\ pc = "sort_call"
    /\ classes' = SubSeq(ies, 1, Len(ies) - 1)
    /\ returned_classes' = {}
    /\ pc' = IF ies[Len(ies)] = "GenericIE" THEN "sort_while" ELSE "sort_raised"
    /\ UNCHANGED <<klass, params, info_dict, filename, host, count,
                   frag_index, retval, result, proc, stdin_q, sigint, native,
                   ncalls, interrupted, rcs, captured, nsleeps, frag_files,
                   tmp_file, final_file, urls_file, dest_open, on_open,
                   last_written, appended, skipped, stderr_out, errors,
                   events, status, aktiva, completed, requests, exc, polled,
                   iters, branch, nsamples, rpc_sleeps, npolls, last_sample,
                   bad_id_at, cmd, warnings, env, name, encoding, longname,
                   runtime, version_info, fs, newcontent, expected_sum,
                   update_ret, hierarchy, ies, yielded>>

\* lines 106-121: one pass of the while loop: the for loop goes through
\* the snapshot up to the class whose missing bases it inserts, or which
\* it yields; when it breaks nowhere the pass changes nothing
sort_pass ==
    /\ pc = "sort_while"
    /\ classes # <<>>
    /\ LET k == BreakAt(1)
           c == classes[k]
       IN  IF k = 0
           THEN UNCHANGED <<classes, returned_classes, yielded, pc>>
           ELSE IF Missing(c) # {}
           THEN IF "GenericIE" \in Missing(c)
                THEN /\ classes' = InsertedInOrder(BeforeGenericIE(Missing(c)), classes)
                     /\ pc' = "sort_raised"
                     /\ UNCHANGED <<returned_classes, yielded>>
                ELSE /\ classes' = InsertedInOrder(Missing(c), classes)
                     /\ UNCHANGED <<returned_classes, yielded, pc>>
           ELSE /\ yielded' = Append(yielded, c)
                /\ returned_classes' = returned_classes \cup {c}
                /\ classes' = Removed(classes, c)
                /\ UNCHANGED pc
    /\ UNCHANGED <<klass, params, info_dict, filename, host, count,
                   frag_index, retval, result, proc, stdin_q, sigint, native,
                   ncalls, interrupted, rcs, captured, nsleeps, frag_files,
                   tmp_file, final_file, urls_file, dest_open, on_open,
                   last_written, appended, skipped, stderr_out, errors,
                   events, status, aktiva, completed, requests, exc, polled,
                   iters, branch, nsamples, rpc_sleeps, npolls, last_sample,
                   bad_id_at, cmd, warnings, env, name, encoding, longname,
                   runtime, version_info, fs, newcontent, expected_sum,
                   update_ret, hierarchy, ies>>

\* line 122: yield ies[-1]
sort_finish ==
    /\ pc = "sort_while"
    /\ classes = <<>>
    /\ yielded' = Append(yielded, ies[Len(ies)])
    /\ pc' = "sort_done"
    /\ UNCHANGED <<klass, params, info_dict, filename, host, count,
                   frag_index, retval, result, proc, stdin_q, sigint, native,
                   ncalls, interrupted, rcs, captured, nsleeps, frag_files,
                   tmp_file, final_file, urls_file, dest_open, on_open,
                   last_written, appended, skipped, stderr_out, errors,
                   events, status, aktiva, completed, requests, exc, polled,
                   iters, branch, nsamples, rpc_sleeps, npolls, last_sample,
                   bad_id_at, cmd, warnings, env, name, encoding, longname,
                   runtime, version_info, fs, newcontent, expected_sum,
                   update_ret, hierarchy, ies, classes, returned_classes>>

NextSortIes ==
    \/ sort_start
    \/ sort_pass
    \/ sort_finish

SpecSortIes == InitSortIes /\ [][NextSortIes]_vars

(***************************************************************************)
(* SpecSupports: ExternalFD.supports applied to every class and to every   *)
(* protocol tag of up to MaxTagLen symbols.                                *)
(***************************************************************************)
TagSymbols == {"http", "m3u8_frag_urls", "rtmp", "xyz", "+"}

ProtocolTags ==
    UNION {[1..n -> TagSymbols] : n \in 0..MaxTagLen}

InitSupports ==
    /\ klass \in AllKlasses
    /\ params = Params(0, TRUE, FALSE, FALSE, FALSE)
    /\ \E tag \in ProtocolTags, so \in BOOLEAN :
           info_dict = Info(-1, FALSE, FALSE, FALSE, tag, FALSE, "u", so)
    /\ filename = "video"
    /\ host = DefaultHost
    /\ pc = "supports"
    /\ name = <<>>
    /\ encoding = "utf8"
    /\ NoUpdate
    /\ NoSort
    /\ InitRun

\* cls.supports(info_dict) is evaluated and its value kept in result
supports_call ==
    /\ pc = "supports"
    /\ result' = IF supports(klass, info_dict) THEN "True" ELSE "False"
    /\ pc' = "supports_done"
    /\ UNCHANGED <<klass, params, info_dict, filename, host, count,
                   frag_index, retval, proc, stdin_q, sigint, native, ncalls,
                   interrupted, rcs, captured, nsleeps, frag_files, tmp_file,
                   final_file, urls_file, dest_open, on_open, last_written,
                   appended, skipped, stderr_out, errors, events, status,
                   aktiva, completed, requests, exc, polled, iters, branch,
                   nsamples, rpc_sleeps, npolls, last_sample, bad_id_at, cmd,
                   warnings, env, name, encoding, longname, runtime,
                   version_info, fs, newcontent, expected_sum, update_ret,
                   hierarchy, ies, classes, returned_classes, yielded>>

NextSupports == supports_call

SpecSupports == InitSupports /\ [][NextSupports]_vars

(***************************************************************************)
(* Properties.                                                             *)
(***************************************************************************)
\* the task has fragments and the destination stream was opened (line 167)
ReassemblyRan == HasFragments /\ (tmp_file.exists \/ final_file.exists)

\* _call_downloader has returned
Returned == pc \in {"ret", "done"}

\* the bytes at the destination: at the temp path, or where it was renamed to
DestData == IF final_file.exists THEN final_file.data ELSE tmp_file.data

\* the decrypted bytes of the fragment files 0..n-1 found in files, ascending
RECURSIVE Concatenated(_, _)
Concatenated(files, n) ==
    IF n = 0 THEN <<>>
    ELSE Concatenated(files, n - 1) \o
         (IF files[n - 1].exists THEN decrypt_fragment(n - 1, files[n - 1].data)
          ELSE <<>>)

\* the indices below n, ascending, whose file is (or is not) in files
RECURSIVE IndicesWhere(_, _, _)
IndicesWhere(files, n, present) ==
    IF n = 0 THEN <<>>
    ELSE IndicesWhere(files, n - 1, present) \o
         (IF files[n - 1].exists = present THEN <<n - 1>> ELSE <<>>)

\* the 'finished' events real_download itself emitted
FinishedByRealDownload ==
    {k \in 1..Len(events) :
        events[k].status = "finished" /\ events[k].by = "real_download"}

\* every one of the fragment_retries + 1 invocations exited non-zero
AllInvocationsFailed ==
    /\ HasFragments
    /\ Len(rcs) = params.fragment_retries + 1
    /\ \A k \in 1..Len(rcs) : rcs[k] # 0

\* C1: on a fragmented task the backend is started at most
\* fragment_retries + 1 times, once only when the first child exits 0, and
\* never again after a child that exited 0.
C1_RetryBound ==
    HasFragments =>
        /\ ncalls <= params.fragment_retries + 1
        /\ \A k \in 1..Len(rcs) : rcs[k] = 0 => (k = Len(rcs) /\ ncalls = k)
        /\ (Len(rcs) >= 1 /\ rcs[1] = 0) => ncalls = 1

C1_Witness ==
    /\ pc = "done" /\ HasFragments
    /\ params.fragment_retries >= 1
    /\ ncalls = params.fragment_retries + 1
    /\ rcs[Len(rcs)] = 0

\* C2: when all fragment_retries + 1 invocations failed, then without
\* skip_unavailable_fragments the give-up error is reported and -1 returned
\* with the destination never opened and no fragment file opened; with
\* skip_unavailable_fragments the destination is opened and reassembly runs.
C2_Exhausted ==
    (AllInvocationsFailed /\ pc \in {"reassemble", "ret", "done"}) =>
        IF ~params.skip_unavailable_fragments
        THEN /\ Returned
             /\ retval = -1
             /\ errors[1] = <<"giving_up", params.fragment_retries>>
             /\ \A k \in 1..Len(errors) : errors[k][1] # "unable_to_open_fragment"
             /\ ~tmp_file.exists /\ ~final_file.exists /\ ~dest_open
             /\ appended = <<>> /\ skipped = <<>>
        ELSE /\ ReassemblyRan
             /\ \A k \in 1..Len(errors) : errors[k][1] # "giving_up"

C2_Witness ==
    /\ AllInvocationsFailed /\ pc = "done"
    /\ ~params.skip_unavailable_fragments
    /\ params.fragment_retries >= 1
    /\ \E i \in FragIdx : frag_files[i].exists

\* C3: when the file of fragment 0 or 1 is missing at reassembly, -1 is
\* returned with skip_unavailable_fragments on as well as off.
C3_FirstFragmentsRequired ==
    (ReassemblyRan /\ Returned
     /\ \E i \in 0..1 : i < NumFrags /\ ~on_open[i].exists) =>
        /\ retval = -1
        /\ \E k \in 1..Len(errors), i \in 0..1 :
               /\ errors[k] = <<"unable_to_open_fragment", i>>
               /\ ~on_open[i].exists
               /\ \A j \in 0..(i - 1) : on_open[j].exists
        /\ \A k \in 1..Len(skipped) : skipped[k] > 1

C3_Witness ==
    /\ pc = "done" /\ ReassemblyRan
    /\ params.skip_unavailable_fragments
    /\ NumFrags = 3
    /\ on_open[0].exists /\ ~on_open[1].exists /\ on_open[2].exists
    /\ result = "False"

\* C4: with fragments 0 and 1 present and a fragment of index > 1 missing,
\* skip_unavailable_fragments on gives 0 and a destination holding the
\* decrypted bytes of exactly the present fragments in ascending order;
\* skip_unavailable_fragments off gives -1.
C4_SkipMissing ==
    (ReassemblyRan /\ Returned
     /\ (\A i \in 0..1 : i < NumFrags => on_open[i].exists)
     /\ \E i \in 2..(NumFrags - 1) : ~on_open[i].exists) =>
        IF params.skip_unavailable_fragments
        THEN /\ retval = 0
             /\ DestData = Concatenated(on_open, NumFrags)
             /\ appended = IndicesWhere(on_open, NumFrags, TRUE)
             /\ skipped = IndicesWhere(on_open, NumFrags, FALSE)
        ELSE /\ retval = -1

C4_Witness ==
    /\ pc = "done" /\ ReassemblyRan
    /\ params.skip_unavailable_fragments
    /\ info_dict.decrypt
    /\ NumFrags = 3
    /\ on_open[0].exists /\ on_open[1].exists /\ ~on_open[2].exists
    /\ result = "True"
    /\ Len(final_file.data) = 4

\* C5: with all n fragment files present the destination is
\* decrypt(0, bytes_0) + ... + decrypt(n-1, bytes_n-1) and nothing else, in
\* whatever order the backend stored the files.
C5_AscendingOrder ==
    (ReassemblyRan /\ Returned
     /\ \A i \in 0..(NumFrags - 1) : on_open[i].exists) =>
        /\ retval = 0
        /\ DestData = Concatenated(on_open, NumFrags)
        /\ Len(DestData) = 2 * NumFrags
        /\ \A i \in 0..(NumFrags - 1) :
               SubSeq(DestData, 2 * i + 1, 2 * i + 2)
                   = decrypt_fragment(i, on_open[i].data)
        /\ appended = [k \in 1..NumFrags |-> k - 1]

\* all three fragments present, fragment 0 stored last by the backend
C5_Witness ==
    /\ pc = "done" /\ ReassemblyRan
    /\ NumFrags = 3
    /\ \A i \in 0..2 : on_open[i].exists
    /\ last_written = 0
    /\ info_dict.decrypt
    /\ result = "True"

\* C6: after a reassembly that returned 0 no fragment file is left when
\* keep_fragments is off and every fragment file is as it was when
\* keep_fragments is on; a fragment file is gone only if its bytes were
\* appended to the destination.
C6_FragmentRetention ==
    /\ (ReassemblyRan /\ Returned /\ retval = 0) =>
           IF params.keep_fragments
           THEN frag_files = on_open
           ELSE \A i \in FragIdx : ~frag_files[i].exists
    /\ ReassemblyRan =>
           \A i \in FragIdx :
               (on_open[i].exists /\ ~frag_files[i].exists) =>
                   \E k \in 1..Len(appended) : appended[k] = i

C6_Witness ==
    /\ pc = "done" /\ ReassemblyRan /\ result = "True"
    /\ params.keep_fragments
    /\ NumFrags = 3
    /\ \A i \in 0..2 : frag_files[i].exists

\* C7: for every class and task, supports is true iff the task does not
\* write to stdout or the class declares TO_STDOUT, the tag has one token
\* only or the class declares MULTIPLE_FORMATS, and every maximal '+'-free
\* stretch of the tag is a protocol of the class.
TagSeparators(s) == {0, Len(s) + 1} \cup {k \in 1..Len(s) : s[k] = "+"}

TagTokens(s) ==
    {SubSeq(s, p + 1, q - 1) : <<p, q>> \in
        {pq \in TagSeparators(s) \X TagSeparators(s) :
            /\ pq[1] < pq[2]
            /\ \A m \in TagSeparators(s) : ~(pq[1] < m /\ m < pq[2])}}

C7_Supports ==
    pc = "supports_done" =>
        (result = "True" <=>
            /\ ~info_dict.to_stdout \/ "TO_STDOUT" \in SUPPORTED_FEATURES(klass)
            /\ Cardinality(TagSeparators(info_dict.protocol)) = 2
                   \/ "MULTIPLE_FORMATS" \in SUPPORTED_FEATURES(klass)
            /\ \A t \in TagTokens(info_dict.protocol) :
                   Len(t) = 1 /\ t[1] \in SUPPORTED_PROTOCOLS(klass))

\* ffmpeg declares both features and knows http, but not the second token
C7_Witness ==
    /\ pc = "supports_done"
    /\ klass = "ffmpeg"
    /\ info_dict.protocol = <<"http", "+", "xyz">>
    /\ result = "False"

\* C8: real_download returns True and emits one 'finished' event of its own
\* iff the result of the backend is 0; otherwise it reports the exit code,
\* returns False and emits no 'finished' event.  The result of a single-file
\* backend that was not interrupted is the exit code of its child.
C8_ReturnValue ==
    /\ pc # "done" => (result = "none" /\ FinishedByRealDownload = {})
    /\ pc = "done" =>
           /\ result = "True" <=> retval = 0
           /\ retval = 0 => Cardinality(FinishedByRealDownload) = 1
           /\ retval # 0 =>
                  /\ result = "False"
                  /\ errors[Len(errors)] = <<"exited_with_code", retval>>
                  /\ FinishedByRealDownload = {}
           /\ (~HasFragments /\ ~interrupted /\ Len(rcs) = 1) => retval = rcs[1]

C8_Witness ==
    /\ pc = "done"
    /\ klass = "wget"
    /\ rcs = <<1>>
    /\ result = "False"

\* C9: on a single-file task run by ExternalFD._call_downloader, a child
\* that exits non-zero has its captured stderr passed on to to_stderr.
C9_StderrRelayedOnFailure ==
    (klass \in {"aria2c", "wget"} /\ ~HasFragments /\ Returned
     /\ Len(rcs) = 1 /\ rcs[1] # 0) =>
        stderr_out = <<decode_replace(captured)>>

\* C10: a KeyboardInterrupt while the backend runs for a live task does not
\* propagate; the temp file is renamed, 'finished' is emitted and
\* real_download returns True.
C10_LiveInterruptSucceeds ==
    (interrupted /\ info_dict.is_live) =>
        /\ pc # "raised"
        /\ pc = "ret" => retval = 0
        /\ pc = "done" =>
               /\ result = "True"
               /\ Cardinality(FinishedByRealDownload) = 1
               /\ filename # "-" => (final_file.exists /\ ~tmp_file.exists)

\* C11: a KeyboardInterrupt while FFmpegFD waits on the child of a task that
\* is not live, reads no pipe and writes to a file, on a host where the child
\* can be asked to quit: the child is asked to quit (b'q' on its stdin, or
\* SIGINT), it exits, and the interrupt is raised out of real_download
\* instead of a value being returned.
C11_InterruptReraised ==
    (klass = "ffmpeg" /\ interrupted /\ host.platform # "win32"
     /\ ~info_dict.is_live /\ ~ffmpeg_live /\ ~UrlIsPipe /\ filename # "-") =>
        /\ stdin_q \/ sigint
        /\ proc = "exited"
        /\ pc = "raised"

\* C12 as stated: a KeyboardInterrupt while FFmpegFD writes to the temp
\* path '-' has the child killed and never sent the quit directive.
C12_PipeDestinationKilled ==
    (klass = "ffmpeg" /\ interrupted /\ filename = "-") =>
        /\ proc = "killed"
        /\ ~stdin_q

\* C12 (amended): a KeyboardInterrupt while FFmpegFD reads its input from a
\* pipe (url '-' or 'pipe:') has the child killed and waited for, never sent
\* the quit directive nor SIGINT, and the interrupt leaves _call_downloader.
C12_PipeInputKilled ==
    (klass = "ffmpeg" /\ interrupted /\ UrlIsPipe) =>
        /\ proc = "killed"
        /\ ~stdin_q /\ ~sigint
        /\ retval = IF pc = "raised" THEN -1 ELSE 0
        /\ pc = "raised" <=> ~info_dict.is_live

C12_Witness ==
    /\ klass = "ffmpeg" /\ interrupted /\ UrlIsPipe
    /\ host.platform = "linux"
    /\ params.enable_native_progress
    /\ filename = "video"
    /\ proc = "killed"
    /\ pc = "raised"


\* control is back with, or an exception is on its way to, the caller of
\* _call_process and of _call_downloader
InvocationLeft ==
    pc \in {"loop", "after_loop", "reassemble", "ret", "done", "raised",
            "raised_oserror", "rpc_done", "rpc_raised"}

\* C13: whenever an invocation of the backend has ended, by a return or by
\* an exception, after exit code 0, another exit code, a KeyboardInterrupt or
\* an RPC error, its child has terminated: no child is left running.
C13_ChildReaped == InvocationLeft => proc # "running"

\* C14: the final path holds content only after real_download renamed the
\* temp file to it, which it does only when the result of the backend is 0;
\* whatever the child and the reassembly write is at the temp path, and
\* after a download that returned False nothing is at the final path.
C14_FinalPathOnlyByRename ==
    /\ final_file.exists =>
           /\ pc = "done" /\ result = "True" /\ retval = 0
           /\ ~tmp_file.exists
           /\ events[Len(events)].downloaded_bytes = Len(final_file.data)
    /\ result = "False" => ~final_file.exists

\* a child that stored a byte and then exited non-zero: the byte stays at the
\* temp path
C14_Witness ==
    /\ pc = "done" /\ result = "False"
    /\ klass = "wget"
    /\ tmp_file.exists /\ Len(tmp_file.data) = 1
    /\ ~final_file.exists

(***************************************************************************)
(* Properties of the RPC monitor (SpecRpc).                                *)
(***************************************************************************)
\* the shutdown request has been sent
ShutdownSent == \E k \in 1..Len(requests) : requests[k] = "aria2.shutdown"

\* the try block of the running iteration got both answers and went on to
\* line 418
Decided ==
    /\ pc = "rpc_finally"
    /\ \/ branch \in {"shutdown", "single", "fragmented"}
       \/ exc = "IndexError"
       \/ bad_id_at = 2 * iters + 1

\* C15: on a fragmented task the shutdown request is sent only in an
\* iteration whose tellActive answer is empty and whose tellStopped answer
\* has exactly len(fragments) entries; it is the last request, and once it
\* is answered the monitor goes on only after the child has exited.
C15_ShutdownOnlyWhenDone ==
    HasFragments =>
        /\ \A k \in 1..Len(requests) :
               requests[k] = "aria2.shutdown" =>
                   /\ k = Len(requests)
                   /\ k = 2 * iters + 1
                   /\ requests[k - 2] = "aria2.tellActive"
                   /\ requests[k - 1] = "aria2.tellStopped"
                   /\ aktiva = <<>>
                   /\ Len(completed) = NumFrags
                   /\ pc \in {"rpc_finally", "rpc_with_exit", "rpc_raised",
                              "rpc_after", "rpc_done"}
                   /\ exc = "none" => (proc = "exited" /\ polled # None)
                   /\ pc = "rpc_raised" => proc = "exited"
        /\ (Decided /\ aktiva = <<>> /\ Len(completed) = NumFrags) => ShutdownSent

C15_Witness ==
    /\ NumFrags = 2
    /\ iters = 2
    /\ requests = <<"aria2.tellActive", "aria2.tellStopped",
                    "aria2.tellActive", "aria2.tellStopped", "aria2.shutdown">>
    /\ pc = "rpc_done"
    /\ rcs = <<0>>

\* C16 as stated: on a single-file task the shutdown request is sent in the
\* iteration in which the one active entry has completedLength equal to
\* totalLength.
C16_ShutdownWhenActiveComplete ==
    (~HasFragments /\ Decided /\ Len(aktiva) = 1
     /\ int(aktiva[1].completedLength) = int(aktiva[1].totalLength)) =>
        ShutdownSent

\* C16 (amended): on a single-file task the shutdown request is sent in the
\* iteration in which tellActive answered no entry and tellStopped exactly
\* one, and in no other; an active entry, also one with completedLength
\* equal to totalLength, only refreshes the status.
C16_SingleShutdown ==
    (~HasFragments /\ Decided) =>
        /\ ShutdownSent <=> (aktiva = <<>> /\ Len(completed) = 1)
        /\ aktiva # <<>> =>
               /\ branch = "single"
               /\ status.downloaded_bytes = <<int(aktiva[1].completedLength), 1>>
               /\ status.total_bytes = <<int(aktiva[1].totalLength), 1>>

C16_Witness ==
    /\ ~HasFragments /\ Decided
    /\ aktiva = <<[completedLength |-> <<2, 0, 0>>, totalLength |-> <<2, 0, 0>>,
                 downloadSpeed |-> <<0>>]>>
    /\ status.downloaded_bytes = <<200, 1>>
    /\ ~ShutdownSent

\* C17: once an answer carried another id than its request, no request is
\* sent any more, no iteration is started, and _call_process does not
\* return: an AssertionError leaves it.
C17_IdMismatchFatal ==
    bad_id_at > 0 =>
        /\ Len(requests) = bad_id_at
        /\ exc = "AssertionError"
        /\ pc \in {"rpc_finally", "rpc_with_exit", "rpc_raised"}
        /\ iters = (IF requests[bad_id_at] = "aria2.shutdown"
                    THEN (bad_id_at - 1) \div 2 ELSE (bad_id_at + 1) \div 2)
        /\ rcs = <<>>
        /\ events = <<>>

C17_Witness ==
    /\ bad_id_at = 4
    /\ requests[4] = "aria2.tellStopped"
    /\ pc = "rpc_raised"
    /\ proc = "exited"

\* C18: every iteration of the poll loop, whatever its branch (single file,
\* fragmented, shutdown, error), gives exactly one 'downloading' status to
\* _hook_progress, sleeps once and polls the child once, in that order.
C18_OneSamplePerIteration ==
    /\ pc \in {"rpc_loop", "rpc_after", "rpc_with_exit", "rpc_raised", "rpc_done"} =>
           /\ nsamples = iters + 1
           /\ rpc_sleeps = iters
           /\ npolls = iters + 1
    /\ pc \in {"rpc_active", "rpc_stopped", "rpc_decide", "rpc_finally"} =>
           /\ nsamples = iters
           /\ rpc_sleeps = iters - 1
           /\ npolls = iters
    /\ (nsamples > 0 /\ pc # "rpc_done") => last_sample.status = "downloading"
    /\ pc \in {"rpc_loop", "rpc_with_exit"} => last_sample = status

\* two iterations, the second failing on an empty tellActive answer
C18_Witness ==
    /\ pc = "rpc_raised"
    /\ exc = "IndexError"
    /\ iters = 2
    /\ nsamples = 3

\* C19: when the monitor returns exit code 0 it has emitted exactly one
\* 'finished' event, whose downloaded_bytes is the total_bytes of the last
\* status; when it returns another exit code it has emitted none.
C19_FinishedEvent ==
    /\ pc # "rpc_done" => events = <<>>
    /\ pc = "rpc_done" =>
           IF rcs = <<0>>
           THEN /\ Len(events) = 1
                /\ events[1].status = "finished"
                /\ events[1].downloaded_bytes = status.total_bytes
                /\ status.status = "finished"
                /\ last_sample = status
                /\ status.downloaded_bytes = status.total_bytes
           ELSE /\ events = <<>>
                /\ status.status = "downloading"
                /\ last_sample.status = "downloading"

\* the child exits 0 by itself while a sample says 50 of 200 bytes
C19_Witness ==
    /\ pc = "rpc_done"
    /\ rcs = <<0>>
    /\ ~HasFragments
    /\ ~ShutdownSent
    /\ aktiva = <<[completedLength |-> <<5, 0>>, totalLength |-> <<2, 0, 0>>,
                 downloadSpeed |-> <<1, 0>>]>>
    /\ events[1].downloaded_bytes = <<200, 1>>

\* both queries of the last iteration were answered and its sample emitted
SampleEmitted ==
    /\ pc \in {"rpc_loop", "rpc_after"}
    /\ branch \in {"fragmented", "single", "shutdown"}

\* the number of entries whose field is the decimal string digits
CountWhere(entries, field, digits) ==
    Cardinality({k \in 1..Len(entries) : entries[k][field] = digits})

\* the sums of the reported lengths, entry by entry: an active entry is 50
\* or 200 of 200 bytes, a stopped one 300 bytes
SumTotalLength == 200 * Len(aktiva) + 300 * Len(completed)

SumDownloaded ==
    50 * CountWhere(aktiva, "completedLength", <<5, 0>>)
    + 200 * CountWhere(aktiva, "completedLength", <<2, 0, 0>>)
    + 300 * Len(completed)

\* sample s carries the aggregate of the answers of the last iteration
Aggregated(s) ==
    /\ s.total_bytes # None
    /\ s.total_bytes[1] * (Len(aktiva) + Len(completed))
           = SumTotalLength * NumFrags * s.total_bytes[2]
    /\ s.downloaded_bytes = <<SumDownloaded, 1>>

\* C20 as stated: on a fragmented task every sample of an iteration that
\* knows k = len(aktiva) + len(completed) > 0 entries has total_bytes =
\* (sum of totalLength) * n / k and downloaded_bytes = (sum of
\* completedLength of the active) + (sum of totalLength of the stopped).
C20_EverySampleAggregated ==
    (HasFragments /\ SampleEmitted /\ Len(aktiva) + Len(completed) > 0) =>
        Aggregated(last_sample)

\* C20 (amended): the same, for the sample of every iteration that does not
\* send the shutdown request; with active {50 of 200}, stopped {300} and
\* n = 4 the sample has total_bytes 1000 and downloaded_bytes 350.
C20_Aggregation ==
    /\ (HasFragments /\ SampleEmitted /\ branch # "shutdown"
        /\ Len(aktiva) + Len(completed) > 0) =>
           /\ Aggregated(last_sample)
           /\ last_sample.fragment_count = NumFrags
    /\ (HasFragments /\ Decided /\ branch = "fragmented"
        /\ Len(aktiva) + Len(completed) > 0) =>
           Aggregated(status)
    /\ (SampleEmitted /\ NumFrags = 4
        /\ aktiva = <<[completedLength |-> <<5, 0>>, totalLength |-> <<2, 0, 0>>,
                 downloadSpeed |-> <<1, 0>>]>>
        /\ completed = <<[totalLength |-> <<3, 0, 0>>]>>) =>
           /\ last_sample.total_bytes = <<1000, 1>>
           /\ last_sample.downloaded_bytes = <<350, 1>>

C20_Witness ==
    /\ SampleEmitted /\ NumFrags = 4
    /\ aktiva = <<[completedLength |-> <<5, 0>>, totalLength |-> <<2, 0, 0>>,
                 downloadSpeed |-> <<1, 0>>]>>
    /\ completed = <<[totalLength |-> <<3, 0, 0>>]>>
    /\ last_sample.total_bytes = <<1000, 1>>
    /\ last_sample.downloaded_bytes = <<350, 1>>

\* a 'downloading' sample of an iteration that refreshed the status
Refreshed(s) == s.status = "downloading" /\ s.speed # None

\* C21: in every sample the poll loop gives out after refreshing the status,
\* eta is (total_bytes - downloaded_bytes) / speed when the speed is not
\* zero and None when it is zero; a zero speed raises nothing, the sample of
\* that iteration is emitted and the loop test is reached again.
C21_EtaFromSpeed ==
    /\ \A s \in {status, last_sample} :
           Refreshed(s) =>
               IF s.speed[1] = 0
               THEN s.eta = None
               ELSE /\ s.eta # None
                    /\ s.eta[1] * s.speed[1] * s.total_bytes[2] * s.downloaded_bytes[2]
                         = s.eta[2] * s.speed[2]
                             * (s.total_bytes[1] * s.downloaded_bytes[2]
                                  - s.downloaded_bytes[1] * s.total_bytes[2])
    /\ (branch \in {"single", "fragmented"} /\ pc \in {"rpc_finally", "rpc_loop"}) =>
           /\ exc = "none"
           /\ status.speed =
                  <<10 * CountWhere(IF branch = "single" THEN <<aktiva[1]>> ELSE aktiva,
                                    "downloadSpeed", <<1, 0>>), 1>>
           /\ pc = "rpc_loop" => /\ last_sample = status
                                 /\ nsamples = iters + 1

\* the first iteration finds a stalled transfer (eta None), the sample goes
\* out, and the second iteration finds 50 of 200 bytes at 10 bytes a second:
\* eta 15
C21_Witness ==
    /\ pc = "rpc_finally"
    /\ iters = 2
    /\ nr_frags < 0
    /\ last_sample.speed = <<0, 1>>
    /\ last_sample.eta = None
    /\ status.speed = <<10, 1>>
    /\ status.eta = <<15, 1>>

\* the number of positions of seq that hold x
Count(seq, x) == Cardinality({k \in 1..Len(seq) : seq[k] = x})

\* the command has been built and the child started
Built == cmd # <<>>

\* x is followed by y somewhere in seq
Follows(seq, x, y) == \E k \in 1..(Len(seq) - 1) : seq[k] = x /\ seq[k + 1] = y

\* the retries flag of the class at hand and its literal for "unbounded"
RetryFlag == IF klass = "curl" THEN "--retry" ELSE "--tries"
UnboundedLiteral == IF klass = "curl" THEN "2147483647" ELSE "0"

\* C22: in the command curl or wget is started with, the value after the
\* retries flag ('--retry', '--tries') is never 'inf' or 'infinite': a
\* retries option of float('inf'), 'inf' or 'infinite' gives the flag with
\* '2147483647' (curl) or '0' (wget), any other value gives the flag with
\* that value, and no retries option gives no flag.
C22_InfiniteRetriesTranslated ==
    (Built /\ klass \in {"curl", "wget"}) =>
        /\ ~Follows(cmd, <<RetryFlag>>, <<"inf">>)
        /\ ~Follows(cmd, <<RetryFlag>>, <<"infinite">>)
        /\ Count(cmd, <<"inf">>) = 0 /\ Count(cmd, <<"infinite">>) = 0
        /\ Count(cmd, <<RetryFlag>>) = (IF params.retries = <<>> THEN 0 ELSE 1)
        /\ params.retries \in {<<"float", "inf">>, <<"str", "inf">>, <<"str", "infinite">>}
               => Follows(cmd, <<RetryFlag>>, <<UnboundedLiteral>>)
        /\ params.retries = <<"int", "10">> => Follows(cmd, <<RetryFlag>>, <<"10">>)

\* wget is started for retries 'infinite': --tries 0
C22_Witness ==
    /\ klass = "wget"
    /\ params.retries = <<"str", "infinite">>
    /\ proc = "running"
    /\ Follows(cmd, <<"--tries">>, <<"0">>)

\* the configured proxy is socks5://h or socks://h
SocksProxy ==
    params.proxy \in {<<"str", "socks", "5", "://", "h">>, <<"str", "socks", "://", "h">>}

\* C23: when the proxy has a SOCKS scheme, the command building of aria2c
\* and of ffmpeg gives the SOCKS warning exactly once, the command is built
\* (it is not empty) and the child is started with it.
C23_SocksWarnsOnce ==
    (klass \in {"aria2c", "ffmpeg"} /\ SocksProxy /\ pc # "call") =>
        /\ Count(warnings, "socks") = 1
        /\ cmd # <<>>
        /\ cmd[1] = <<klass>>
        /\ ncalls >= 1 \/ pc = "loop"

\* aria2c with the proxy socks://h: one warning, and --all-proxy all the same
C23_Witness ==
    /\ klass = "aria2c"
    /\ params.proxy = <<"str", "socks", "://", "h">>
    /\ warnings = <<"socks">>
    /\ Follows(cmd, <<"--all-proxy">>, <<"socks", "://", "h">>)
    /\ proc = "running"

\* a proxy is configured: the option is there and is not ''
ProxyConfigured == params.proxy \notin {<<>>, <<"str">>}

\* the value the variables get: the proxy, as an http proxy when it names no
\* scheme
ProxyValue ==
    IF \E k \in 2..Len(params.proxy) : params.proxy[k] = "://"
    THEN Tail(params.proxy)
    ELSE <<"http", "://">> \o Tail(params.proxy)

\* the plan of ffmpeg has been made and the child started
Planned == klass = "ffmpeg" /\ Built

\* C24 as stated: the environment is changed iff a proxy is configured that
\* is not a SOCKS proxy.
C24_NoInjectionForSocks ==
    Planned => (env # <<>> <=> (ProxyConfigured /\ ~SocksProxy))

\* C24: FFmpegFD sets HTTP_PROXY and http_proxy in the environment of the
\* child iff a proxy is configured, SOCKS or not: both variables get the
\* proxy (with http:// in front when it names no scheme); a SOCKS proxy gives
\* the warning in addition; without a proxy env is None.
C24_InjectionForEveryProxy ==
    Planned =>
        /\ env # <<>> <=> ProxyConfigured
        /\ ProxyConfigured =>
               env = <<<<"HTTP_PROXY", ProxyValue>>, <<"http_proxy", ProxyValue>>>>
        /\ SocksProxy => Count(warnings, "socks") = 1
        /\ ~SocksProxy => Count(warnings, "socks") = 0

\* the proxy socks5://h is warned about and set in both variables
C24_Witness ==
    /\ Planned
    /\ params.proxy = <<"str", "socks", "5", "://", "h">>
    /\ warnings = <<"socks">>
    /\ env = <<<<"HTTP_PROXY", <<"socks", "5", "://", "h">>>>,
               <<"http_proxy", <<"socks", "5", "://", "h">>>>>>

IsHLS == info_dict.protocol \in {<<"m3u8">>, <<"m3u8_native">>}

\* C25 as stated: an HLS task gets mpegts when the destination is a pipe,
\* when the source is live or when MPEG-TS is asked for, mp4 otherwise; rtmp
\* gets flv; one '-f' in each case.
C25_LiveAlwaysMpegts ==
    Planned =>
        /\ IsHLS =>
               /\ Count(cmd, <<"-f">>) = 1
               /\ IF filename = "-" \/ info_dict.is_live
                      \/ params.hls_use_mpegts = <<"bool", "True">>
                  THEN Follows(cmd, <<"-f">>, <<"mpegts">>)
                  ELSE Follows(cmd, <<"-f">>, <<"mp4">>)
        /\ info_dict.protocol = <<"rtmp">> =>
               Count(cmd, <<"-f">>) = 1 /\ Follows(cmd, <<"-f">>, <<"flv">>)

\* C25: an HLS task gets mpegts when the destination is a pipe, when
\* hls_use_mpegts is true, or when hls_use_mpegts is not set and the source
\* is live; mp4 otherwise, also for a live source when hls_use_mpegts is
\* false; rtmp gets flv; one '-f' in each case.
C25_OutputFormat ==
    Planned =>
        /\ IsHLS =>
               /\ Count(cmd, <<"-f">>) = 1
               /\ IF filename = "-"
                      \/ params.hls_use_mpegts = <<"bool", "True">>
                      \/ (params.hls_use_mpegts = <<>> /\ info_dict.is_live)
                  THEN Follows(cmd, <<"-f">>, <<"mpegts">>)
                  ELSE Follows(cmd, <<"-f">>, <<"mp4">>)
        /\ info_dict.protocol = <<"rtmp">> =>
               Count(cmd, <<"-f">>) = 1 /\ Follows(cmd, <<"-f">>, <<"flv">>)

\* a live HLS source written to a file with hls_use_mpegts false: mp4
C25_Witness ==
    /\ Planned
    /\ info_dict.protocol = <<"m3u8">>
    /\ info_dict.is_live
    /\ params.hls_use_mpegts = <<"bool", "False">>
    /\ filename = "video"
    /\ Follows(cmd, <<"-f">>, <<"mp4">>)
    /\ Count(cmd, <<"-f">>) = 1

\* a section start (other than the beginning) or a section end is given
SectionIsGiven == info_dict.section_start = <<5>> \/ info_dict.section_end = <<10>>

\* C26: when a section is given, the plan has '-c copy' iff
\* force_keyframes_at_cuts is not set.
C26_CopyUnlessKeyframesForced ==
    (Planned /\ SectionIsGiven) =>
        /\ Follows(cmd, <<"-c">>, <<"copy">>)
               <=> params.force_keyframes_at_cuts = <<>>
        /\ Count(cmd, <<"-c">>) = (IF params.force_keyframes_at_cuts = <<>> THEN 1 ELSE 0)

\* a cut from second 5 with force_keyframes_at_cuts: -ss 5 and no -c copy
C26_Witness ==
    /\ Planned
    /\ info_dict.section_start = <<5>>
    /\ info_dict.section_end = <<>>
    /\ params.force_keyframes_at_cuts = <<"bool", "True">>
    /\ Follows(cmd, <<"-ss">>, <<"5">>)
    /\ Count(cmd, <<"-c">>) = 0

\* the plan ends with -progress pipe:1 -stats_period 0.1
HasProgressArgs ==
    /\ Len(cmd) >= 4
    /\ SubSeq(cmd, Len(cmd) - 3, Len(cmd))
           = <<<<"-progress">>, <<"pipe:1">>, <<"-stats_period">>, <<"0.1">>>>

\* the task is live for FFmpegFD
TaskIsLive ==
    IF info_dict.protocol = <<"rtmp">> THEN info_dict.rtmp_live
    ELSE info_dict.live \/ info_dict.is_live

HasMarker(s) ==
    \E k \in 1..(Len(s) - 2) : s[k] = "~" /\ s[k + 1] = "~" /\ s[k + 2] = "/"

\* the bytes of s in the encoding at hand: 3 (UTF-8) or 2 (Shift_JIS) for
\* each wide character, 1 for each other
NameBytes(s) ==
    Len(s) + (IF encoding = "utf8" THEN 2 ELSE 1)
                * Cardinality({k \in 1..Len(s) : s[k] = "W"})

\* s is within the byte limit: no run of s without a '/' takes more bytes
Fits(s) ==
    \A i \in 1..Len(s) : \A j \in i..Len(s) :
        (\A k \in i..j : s[k] # "/") => NameBytes(SubSeq(s, i, j)) <= NameLimit

\* C28 as stated: combine(split(s, encoding)) = s for every name s, and a
\* name within the byte limit is returned unchanged by both functions.
C28_RoundTripEveryName ==
    pc = "longname_done" =>
        /\ longname.combined = name
        /\ Fits(name) =>
               longname.split = name /\ longname.combined_name = name

\* C28: combine(split(s, encoding)) = s for every name s that does not hold
\* '~~/', and such a name within the byte limit is returned unchanged by
\* both functions; a name within the limit that holds '~~/' is returned
\* unchanged by split and without its '~~/' by combine.
C28_RoundTripWithoutMarker ==
    pc = "longname_done" =>
        /\ ~HasMarker(name) => longname.combined = name
        /\ Fits(name) =>
               /\ longname.split = name
               /\ ~HasMarker(name) => longname.combined_name = name
               /\ HasMarker(name) =>
                      /\ Len(longname.combined_name) < Len(name)
                      /\ longname.combined = longname.combined_name
        /\ (~HasMarker(name) /\ ~Fits(name)) =>
               /\ longname.split # name
               /\ HasMarker(longname.split)

\* two wide characters take 6 bytes in UTF-8: the name is cut after the
\* first, and put together again
C28_Witness ==
    /\ pc = "longname_done"
    /\ name = <<"W", "W">>
    /\ encoding = "utf8"
    /\ longname.split = <<"W", "~", "~", "/", "W">>
    /\ longname.combined = name

\* C29: in the fragment retry loop sleep_retry is called after a failed
\* invocation iff another invocation follows: while a child runs and when
\* the loop is over the sleeps are one fewer than the invocations, whether
\* the last invocation failed or succeeded; between a failure and the loop
\* test they are as many as the invocations iff the loop goes on.
C29_SleepBetweenInvocations ==
    (HasFragments /\ ncalls >= 1) =>
        /\ pc # "loop" => nsleeps = ncalls - 1
        /\ pc = "loop" =>
               nsleeps = (IF count <= params.fragment_retries THEN ncalls ELSE ncalls - 1)
        /\ ncalls = Len(rcs) + (IF proc \in {"running", "killed"} THEN 1 ELSE 0)

\* three failed invocations with fragment_retries = 2: two sleeps
C29_Witness ==
    /\ pc = "after_loop"
    /\ params.fragment_retries = 2
    /\ rcs = <<1, 1, 1>>
    /\ ncalls = 3
    /\ nsleeps = 2

\* C30: when the reassembly returns 0 every fragment index was written or
\* skipped, the stream on the destination is closed and '<temp>.frag.urls'
\* is gone; until then, from the time aria2c's command was built, the URL
\* list is there.
C30_UrlListRemovedAtEnd ==
    HasFragments =>
        /\ (Returned /\ retval = 0) =>
               /\ ~urls_file
               /\ ~dest_open
               /\ Len(appended) + Len(skipped) = NumFrags
        /\ (klass = "aria2c" /\ pc # "call" /\ ~(Returned /\ retval = 0)) => urls_file

\* three fragments kept and put together: the URL list is gone
C30_Witness ==
    /\ klass = "aria2c"
    /\ NumFrags = 3
    /\ params.keep_fragments
    /\ pc = "ret"
    /\ retval = 0
    /\ appended = <<0, 1, 2>>
    /\ ~urls_file
    /\ ~dest_open

\* C31: when the ffmpeg executable cannot be found, an FFmpegFD download is
\* a failure: real_download returns False (it does not raise and does not
\* return True), no 'finished' event is emitted and nothing is renamed to
\* the final path.
C31_MissingFFmpegFails ==
    (klass = "ffmpeg" /\ ~host.ffmpeg_found) =>
        /\ pc \notin {"raised", "raised_oserror"}
        /\ pc = "done" => result = "False"
        /\ FinishedByRealDownload = {}
        /\ ~final_file.exists

\* the 'finished' events given to the sink, by the monitor or by
\* real_download
FinishedEvents == {k \in 1..Len(events) : events[k].status = "finished"}

\* C32: over one real_download call a 'finished' event is emitted only if
\* the download as a whole succeeds: when real_download has returned False
\* no 'finished' event was emitted, by the monitor or by real_download.
C32_FinishedOnlyOnSuccess ==
    (pc = "done" /\ result = "False") => FinishedEvents = {}

\* a digest is published for the asset and the download has another one
FailedVerification ==
    /\ version_info.listed_sum # None
    /\ newcontent # None
    /\ sha256(newcontent) # version_info.listed_sum

\* C33: run_update never installs a download that fails verification: when
\* a SHA-256 sum is published for the asset and the digest of the download
\* differs from it, the file at the path of the executable never gets the
\* download, and once run_update has returned that file has its original
\* content and the value returned is not True (exe variants and zip/mac_exe
\* alike).
C33_NoUnverifiedInstall ==
    FailedVerification =>
        /\ fs["f"] # File(newcontent)
        /\ pc = "upd_done" =>
               /\ fs["f"] = File(<<"orig">>)
               /\ update_ret # "True"

\* a Windows executable whose download did not match: filename.new was
\* removed, the renames were tried and the current file put back
C33_Witness ==
    /\ pc = "upd_done"
    /\ detect_variant(runtime) = "exe_red"
    /\ newcontent = <<"bad">>
    /\ expected_sum = sha256(<<"good">>)
    /\ errors = <<<<"verify_the_new_executable", 0>>, <<"overwrite_current_version", 0>>>>
    /\ fs["f"] = File(<<"orig">>)
    /\ ~fs["f.new"].exists
    /\ update_ret = "None"

\* C34: detect_variant() returns in every runtime environment one of the
\* keys of _NON_UPDATEABLE_REASONS; a frozen build without _MEIPASS is
\* detected as 'py2exe', and is_non_updateable() is None for it.
C34_VariantIsKnown ==
    /\ detect_variant(runtime) \in DOMAIN NON_UPDATEABLE_REASONS
    /\ (runtime.frozen /\ runtime.MEIPASS = "") =>
           /\ detect_variant(runtime) = "py2exe"
           /\ is_non_updateable(runtime) = ""

\* the classes given and, over any number of steps, their bases that are
\* not ignored
Required == Ancestors(hierarchy, Elems(ies), Cardinality(AllIEClasses))

\* the classes yielded before position k
YieldedBefore(k) == {yielded[j] : j \in 1..(k - 1)}

\* C35: for an acyclic hierarchy and a list that ends with GenericIE,
\* sort_ies comes to its end without an error, having yielded every class
\* given and every base (not ignored) missing from the list exactly once,
\* each class after all of its bases that are not ignored, GenericIE last.
C35_SortIes ==
    /\ pc # "sort_raised"
    /\ pc = "sort_done" =>
           /\ Elems(yielded) = Required
           /\ Len(yielded) = Cardinality(Required)
           /\ \A k \in 1..Len(yielded) : bases(yielded[k]) \subseteq YieldedBefore(k)
           /\ yielded[Len(yielded)] = "GenericIE"

====
